---- MODULE Spec2Model ----
(***************************************************************************)
(* Verification model of git-to-text: the chunk grouper, the diff          *)
(* segmenter and filter, the history walker, and the model gateway's       *)
(* retry wrapper and stream processor.                                     *)
(*                                                                         *)
(* Text is modelled as a sequence of one-character strings, so that        *)
(* split, trim, startsWith and the path pattern are computed on            *)
(* characters as the JavaScript does.                                      *)
(***************************************************************************)
EXTENDS Integers, Sequences, FiniteSets, TLC

VARIABLES
  \* chunk grouper (groupBySize)
  items, maxSize, groups, gpc,
  \* diff segmenter and diff filter
  diff, projectType, segments, filtered, dpc,
  \* history walker (getCommitDiffs, getTagDiffs)
  walkMode, walkType, commitList, groupSize, tagsAll, fromTag, sortedTags,
  wi, lastProcessedIndex, diffs, gitDiffLog, walkResult, wpc,
  \* model gateway: _retryWithDelay around query / chat
  callKind, retries, retryDelay, ri, attemptLog, sleepLog, callResult, rpc,
  \* model gateway: _processStream
  client, isChat, stream, unread, buffer, fullText, locked, tpc,
  \* feature service and analyzer: consolidation and documentation folds
  docOp, analyzerVariant, allFeatures, features, hasFilePath, fileContent,
  fileLog, foldKind, foldText, foldChunks, fi, messages, globalSummary, chatLog,
  foldResult, fpc,
  \* feature service and analyzer: processDiffs over the diff records
  runType, diffRecords, di, diffGroups, gi, diffFeatures, queryLog, replyLog,
  runResult, apc,
  \* command loop: the line read, where the loop stands, lines read, exports
  cmd, spc, nRead, exportLog

gvars == <<items, maxSize, groups, gpc>>
dvars == <<diff, projectType, segments, filtered, dpc>>
wparams == <<walkMode, walkType, commitList, groupSize, tagsAll, fromTag>>
wvars == <<wparams, sortedTags, wi, lastProcessedIndex, diffs, gitDiffLog,
           walkResult, wpc>>
rvars == <<callKind, retries, retryDelay, ri, attemptLog, sleepLog, callResult, rpc>>
tvars == <<client, isChat, stream, unread, buffer, fullText, locked, tpc>>
fvars == <<docOp, analyzerVariant, allFeatures, features, hasFilePath, fileContent,
           fileLog, foldKind, foldText, foldChunks, fi, messages, globalSummary, chatLog,
           foldResult, fpc>>
avars == <<runType, diffRecords, di, diffGroups, gi, diffFeatures, queryLog, replyLog,
           runResult, apc>>
svars == <<cmd, spc, nRead, exportLog>>
vars == <<gvars, dvars, wvars, rvars, tvars, fvars, avars, svars>>

(***************************************************************************)
(* A component that takes no part in a specification stays idle            *)
(***************************************************************************)
GroupIdle == items = <<>> /\ maxSize = 0 /\ groups = <<>> /\ gpc = "idle"

DiffIdle ==
  /\ diff = <<>> /\ projectType = "unknown"
  /\ segments = <<>> /\ filtered = <<>> /\ dpc = {}

WalkIdle ==
  /\ walkMode = "none" /\ walkType = "unknown" /\ commitList = <<>>
  /\ groupSize = 1 /\ tagsAll = <<>> /\ fromTag = <<>> /\ sortedTags = <<>>
  /\ wi = 0 /\ lastProcessedIndex = 0 /\ diffs = <<>> /\ gitDiffLog = <<>>
  /\ walkResult = <<>> /\ wpc = "idle"

RetryIdle ==
  /\ callKind = "none" /\ retries = 0 /\ retryDelay = 0 /\ ri = 0
  /\ attemptLog = <<>> /\ sleepLog = <<>> /\ callResult = <<>> /\ rpc = "idle"

StreamIdle ==
  /\ client = "none" /\ isChat = FALSE /\ stream = <<>> /\ unread = <<>> /\ buffer = <<>>
  /\ fullText = <<>> /\ locked = FALSE /\ tpc = "idle"

FoldIdle ==
  /\ docOp = "none" /\ analyzerVariant = "current"
  /\ allFeatures = <<>> /\ features = <<>>
  /\ hasFilePath = FALSE /\ fileContent = <<>> /\ fileLog = <<>>
  /\ foldKind = "none" /\ foldText = <<>> /\ foldChunks = <<>> /\ fi = 0
  /\ messages = <<>> /\ globalSummary = <<>> /\ chatLog = <<>>
  /\ foldResult = <<>> /\ fpc = "idle"

AnalyzeIdle ==
  /\ runType = "none" /\ diffRecords = <<>> /\ di = 0
  /\ diffGroups = <<>> /\ gi = 0 /\ diffFeatures = <<>>
  /\ queryLog = <<>> /\ replyLog = <<>>
  /\ runResult = <<>> /\ apc = "idle"

SessionIdle == cmd = <<>> /\ spc = "off" /\ nRead = 0 /\ exportLog = <<>>

(***************************************************************************)
(* Bounds                                                                  *)
(***************************************************************************)
MaxItems == 4        \* longest input sequence of the grouper
MaxItemSize == 3     \* largest value of getSize(item)
MaxMaxSize == 2      \* largest maxSize
MaxLines == 3        \* most lines of a diff text
MaxCommits == 6      \* most commits of a history
MaxGroupSize == 3    \* largest commit group size n
MaxTags == 3         \* most tags of a repository
MaxRetryAttempts == 4 \* largest retries argument of _retryWithDelay
MaxFragments == 3    \* most lines of a response stream
MaxFeatures == 3     \* most entries of a feature list
MaxDiffs == 3        \* most diff records of one run
MaxCommands == 3     \* most lines read at the prompt of one session

(***************************************************************************)
(* Generic helpers                                                         *)
(***************************************************************************)
SeqsUpTo(S, n) == UNION {[1..k -> S] : k \in 0..n}

RECURSIVE Flatten(_)
Flatten(ss) == IF ss = <<>> THEN <<>> ELSE Head(ss) \o Flatten(Tail(ss))

RECURSIVE SumSize(_)
SumSize(g) == IF g = <<>> THEN 0 ELSE Head(g).size + SumSize(Tail(g))

(***************************************************************************)
(* Text: a string is a sequence of one-character strings                   *)
(***************************************************************************)
Min(S) == CHOOSE x \in S : \A y \in S : x <= y

\* the literal 'diff --git'
DIFF_GIT == <<"d","i","f","f"," ","-","-","g","i","t">>
\* the literal ' b/'
SP_B_SLASH == <<" ","b","/">>
LF == <<"\n">>

IsSpace(c) == c \in {" ", "\n", "\t", "\r"}

RECURSIVE trimStart(_)
trimStart(s) == IF s # <<>> /\ IsSpace(Head(s)) THEN trimStart(Tail(s)) ELSE s

RECURSIVE trimEnd(_)
trimEnd(s) ==
  IF s # <<>> /\ IsSpace(s[Len(s)]) THEN trimEnd(SubSeq(s, 1, Len(s) - 1)) ELSE s

\* String.prototype.trim
trim(s) == trimEnd(trimStart(s))

\* String.prototype.startsWith / endsWith
startsWith(s, p) == Len(s) >= Len(p) /\ SubSeq(s, 1, Len(p)) = p
endsWith(s, p) == Len(s) >= Len(p) /\ SubSeq(s, Len(s) - Len(p) + 1, Len(s)) = p

\* String.prototype.indexOf, 1-based; 0 stands for JavaScript's -1
indexOf(s, p) ==
  LET hits == {i \in 1..(Len(s) - Len(p) + 1) : SubSeq(s, i, i + Len(p) - 1) = p}
  IN IF hits = {} THEN 0 ELSE Min(hits)

\* String.prototype.split with a non-empty separator
RECURSIVE split(_, _)
split(s, sep) ==
  LET i == indexOf(s, sep) IN
  IF i = 0 THEN <<s>>
  ELSE <<SubSeq(s, 1, i - 1)>> \o split(SubSeq(s, i + Len(sep), Len(s)), sep)

\* Array.prototype.join
RECURSIVE join(_, _)
join(parts, sep) ==
  IF parts = <<>> THEN <<>>
  ELSE IF Len(parts) = 1 THEN parts[1]
  ELSE parts[1] \o sep \o join(Tail(parts), sep)

UPPER == <<"A","B","C","D","E","F","G","H","I","J","K","L","M",
           "N","O","P","Q","R","S","T","U","V","W","X","Y","Z">>
LOWER == <<"a","b","c","d","e","f","g","h","i","j","k","l","m",
           "n","o","p","q","r","s","t","u","v","w","x","y","z">>

\* String.prototype.toLowerCase
toLowerCase(s) ==
  [i \in 1..Len(s) |->
     IF \E k \in 1..26 : UPPER[k] = s[i]
       THEN LOWER[CHOOSE k \in 1..26 : UPPER[k] = s[i]]
       ELSE s[i]]

(***************************************************************************)
(* Diff segmenter: splitDiffIntoFileChunks (part_001:59-79)                *)
(***************************************************************************)
\* the value of line.split(' b/')[1] when the line has no ' b/'
UNDEFINED == <<"undefined">>

\* currentFile = line.split(' b/')[1]
fileOfLine(line) ==
  LET parts == split(line, SP_B_SLASH) IN
  IF Len(parts) >= 2 THEN parts[2] ELSE UNDEFINED

chunkInit == [currentChunk |-> <<>>, currentFile |-> <<>>, out |-> <<>>]

\* the chunk that is being closed is not kept
chunkLineNoYield(st, line) ==
  IF startsWith(line, DIFF_GIT)
    THEN [currentChunk |-> line \o LF, currentFile |-> fileOfLine(line), out |-> st.out]
    ELSE [st EXCEPT !.currentChunk = st.currentChunk \o line \o LF]

\* one iteration of the for-loop over lines
chunkLine(st, line) ==
  IF startsWith(line, DIFF_GIT)
    THEN [currentChunk |-> line \o LF,
          currentFile |-> fileOfLine(line),
          out |-> IF st.currentChunk # <<>>
                    THEN Append(st.out, [file |-> st.currentFile,
                                         content |-> trim(st.currentChunk)])
                    ELSE st.out]
    ELSE [st EXCEPT !.currentChunk = st.currentChunk \o line \o LF]

RECURSIVE chunkLoop(_, _)
chunkLoop(st, lines) ==
  IF lines = <<>> THEN st ELSE chunkLoop(chunkLine(st, Head(lines)), Tail(lines))

\* the chunks yielded by the generator, in yield order
splitDiffIntoFileChunks(d) ==
  LET st == chunkLoop(chunkInit, split(d, LF)) IN
  IF st.currentChunk # <<>>
    THEN Append(st.out, [file |-> st.currentFile, content |-> trim(st.currentChunk)])
    ELSE st.out

(***************************************************************************)
(* Project type detector: isSourceFile (part_004:268-285)                  *)
(***************************************************************************)
getSourceFilePatterns(type) ==
  LET patterns ==
        [web |-> {<<".","j","s">>, <<".","j","s","x">>, <<".","t","s">>,
                  <<".","t","s","x">>, <<".","v","u","e">>,
                  <<".","s","v","e","l","t","e">>, <<".","c","s","s">>,
                  <<".","s","c","s","s">>, <<".","h","t","m","l">>},
         node |-> {<<".","j","s">>, <<".","j","s","x">>, <<".","t","s">>,
                   <<".","m","j","s">>, <<".","c","j","s">>},
         go |-> {<<".","g","o">>},
         dart |-> {<<".","d","a","r","t">>},
         python |-> {<<".","p","y">>},
         java |-> {<<".","j","a","v","a">>},
         unknown |-> {<<".","j","s">>, <<".","t","s">>, <<".","g","o">>,
                      <<".","p","y">>, <<".","j","a","v","a">>,
                      <<".","d","a","r","t">>, <<".","c","p","p">>,
                      <<".","c">>, <<".","h">>, <<".","h","p","p">>}]
  IN IF type \in DOMAIN patterns THEN patterns[type] ELSE patterns.unknown

isSourceFile(filePath, type) ==
  \E ext \in getSourceFilePatterns(type) : endsWith(toLowerCase(filePath), ext)

(***************************************************************************)
(* Diff filter: filterSourceFiles (git-service.js:279-302)                 *)
(***************************************************************************)
\* the value of section.match(...) when nothing matches
NO_MATCH == <<"null">>

\* section.match(/a\/(.+?) b\//)[1]: leftmost 'a/', then the shortest
\* non-empty run without a line terminator that is followed by ' b/'
filePathMatch(s) ==
  LET ends(p) == {q \in (p + 3)..(Len(s) - 2) :
                    /\ SubSeq(s, q, q + 2) = SP_B_SLASH
                    /\ \A k \in (p + 2)..(q - 1) : s[k] \notin {"\n", "\r"}}
      starts == {p \in 1..(Len(s) - 1) :
                    s[p] = "a" /\ s[p + 1] = "/" /\ ends(p) # {}}
  IN IF starts = {} THEN NO_MATCH
     ELSE LET p == Min(starts) IN SubSeq(s, p + 2, Min(ends(p)) - 1)

\* the predicate of sections.filter(...)
keepSection(section, type) ==
  LET m == filePathMatch(section) IN
  IF m = NO_MATCH THEN FALSE ELSE isSourceFile(m, type)

filterSourceFiles(d, type) ==
  LET diffSections == split(d, DIFF_GIT)
      sections == SelectSeq(diffSections, LAMBDA x : x # <<>>)
      trimmed == [i \in 1..Len(sections) |-> trim(sections[i])]
      sourceDiffs == SelectSeq(trimmed, LAMBDA x : keepSection(x, type))
  IN IF Len(sourceDiffs) > 0
       THEN DIFF_GIT \o <<" ">> \o join(sourceDiffs, LF \o DIFF_GIT \o <<" ">>)
       ELSE <<>>

(***************************************************************************)
(* Diff texts: up to MaxLines lines joined by line feeds                   *)
(***************************************************************************)
HeaderLine(a, b) == DIFF_GIT \o <<" ","a","/">> \o a \o SP_B_SLASH \o b

PATH_GO == <<"m",".","g","o">>
PATH_MD == <<"r",".","m","d">>
PATH_JS == <<"i",".","j","s">>

DiffLines ==
  { HeaderLine(PATH_GO, PATH_GO),
    HeaderLine(PATH_MD, PATH_MD),
    HeaderLine(PATH_JS, PATH_JS),
    <<"+","x">>,
    <<>>,
    <<" ">>,
    <<"+">> \o HeaderLine(PATH_GO, PATH_GO),
    DIFF_GIT }

DiffInputs == {join(ls, LF) : ls \in SeqsUpTo(DiffLines, MaxLines)}

ProjectTypes == {"go", "node", "zig"}

DiffInit ==
  /\ diff \in DiffInputs
  /\ projectType \in ProjectTypes
  /\ segments = <<>>
  /\ filtered = <<>>
  /\ dpc = {"split", "filter"}

\* const chunks = [...splitDiffIntoFileChunks(diff)]
RunSplitDiff ==
  /\ "split" \in dpc
  /\ segments' = splitDiffIntoFileChunks(diff)
  /\ dpc' = dpc \ {"split"}
  /\ UNCHANGED <<diff, projectType, filtered, gvars, wvars, rvars, tvars, fvars, avars, svars>>

\* const filteredDiff = filterSourceFiles(diff, projectType)
RunFilterSourceFiles ==
  /\ "filter" \in dpc
  /\ filtered' = filterSourceFiles(diff, projectType)
  /\ dpc' = dpc \ {"filter"}
  /\ UNCHANGED <<diff, projectType, segments, gvars, wvars, rvars, tvars, fvars, avars, svars>>

InitDiff ==
  DiffInit /\ GroupIdle /\ WalkIdle /\ RetryIdle /\ StreamIdle /\ FoldIdle /\ AnalyzeIdle
    /\ SessionIdle
NextDiff == RunSplitDiff \/ RunFilterSourceFiles
SpecDiff == InitDiff /\ [][NextDiff]_vars

(***************************************************************************)
(* Chunk grouper: groupBySize (part_001:23-56)                             *)
(***************************************************************************)
\* getSize: the size function handed to groupBySize; an item carries its size
getSize(item) == item.size

\* state of the generator before the first item
groupInit == [currentGroup |-> <<>>, currentSize |-> 0, out |-> <<>>]

\* the overflow branch forgets the item that caused the flush
groupItemDropOnFlush(st, item, max) ==
  LET itemSize == getSize(item) IN
  IF itemSize > max
    THEN IF Len(st.currentGroup) > 0
           THEN [currentGroup |-> <<>>, currentSize |-> 0,
                 out |-> Append(Append(st.out, st.currentGroup), <<item>>)]
           ELSE [st EXCEPT !.out = Append(st.out, <<item>>)]
    ELSE IF st.currentSize + itemSize > max
           THEN [currentGroup |-> <<>>, currentSize |-> 0,
                 out |-> Append(st.out, st.currentGroup)]
           ELSE [st EXCEPT !.currentGroup = Append(st.currentGroup, item),
                           !.currentSize = st.currentSize + itemSize]

\* the overflow test looks at the running size only, after the fact
groupItemLateFlush(st, item, max) ==
  LET itemSize == getSize(item) IN
  IF itemSize > max
    THEN IF Len(st.currentGroup) > 0
           THEN [currentGroup |-> <<>>, currentSize |-> 0,
                 out |-> Append(Append(st.out, st.currentGroup), <<item>>)]
           ELSE [st EXCEPT !.out = Append(st.out, <<item>>)]
    ELSE IF st.currentSize > max
           THEN [currentGroup |-> <<item>>, currentSize |-> itemSize,
                 out |-> Append(st.out, st.currentGroup)]
           ELSE [st EXCEPT !.currentGroup = Append(st.currentGroup, item),
                           !.currentSize = st.currentSize + itemSize]

\* every item that is not oversize opens a group of its own
groupItemNewGroupEach(st, item, max) ==
  LET itemSize == getSize(item) IN
  IF itemSize > max
    THEN IF Len(st.currentGroup) > 0
           THEN [currentGroup |-> <<>>, currentSize |-> 0,
                 out |-> Append(Append(st.out, st.currentGroup), <<item>>)]
           ELSE [st EXCEPT !.out = Append(st.out, <<item>>)]
    ELSE IF Len(st.currentGroup) > 0
           THEN [currentGroup |-> <<item>>, currentSize |-> itemSize,
                 out |-> Append(st.out, st.currentGroup)]
           ELSE [st EXCEPT !.currentGroup = Append(st.currentGroup, item),
                           !.currentSize = st.currentSize + itemSize]

\* an oversize item flushes the current group without looking at its length
groupItemFlushesEmpty(st, item, max) ==
  LET itemSize == getSize(item) IN
  IF itemSize > max
    THEN [currentGroup |-> <<>>, currentSize |-> 0,
          out |-> Append(Append(st.out, st.currentGroup), <<item>>)]
    ELSE IF st.currentSize + itemSize > max
           THEN [currentGroup |-> <<item>>, currentSize |-> itemSize,
                 out |-> Append(st.out, st.currentGroup)]
           ELSE [st EXCEPT !.currentGroup = Append(st.currentGroup, item),
                           !.currentSize = st.currentSize + itemSize]

\* one iteration of the for-loop over items
groupItem(st, item, max) ==
  LET itemSize == getSize(item) IN
  IF itemSize > max
    THEN \* items larger than maxSize are yielded individually
         IF Len(st.currentGroup) > 0
           THEN [currentGroup |-> <<>>, currentSize |-> 0,
                 out |-> Append(Append(st.out, st.currentGroup), <<item>>)]
           ELSE [st EXCEPT !.out = Append(st.out, <<item>>)]
    ELSE IF st.currentSize + itemSize > max
           THEN \* start a new group if the current one would exceed maxSize
                [currentGroup |-> <<item>>, currentSize |-> itemSize,
                 out |-> Append(st.out, st.currentGroup)]
           ELSE [st EXCEPT !.currentGroup = Append(st.currentGroup, item),
                           !.currentSize = st.currentSize + itemSize]

RECURSIVE groupLoop(_, _, _)
groupLoop(st, its, max) ==
  IF its = <<>> THEN st ELSE groupLoop(groupItem(st, Head(its), max), Tail(its), max)

\* the groups yielded by the generator, in yield order
groupBySize(its, max) ==
  LET st == groupLoop(groupInit, its, max) IN
  IF Len(st.currentGroup) > 0 THEN Append(st.out, st.currentGroup) ELSE st.out

\* inputs: every sequence of sizes; an item is its position plus its size
GroupInputs ==
  {[i \in 1..Len(sz) |-> [id |-> i, size |-> sz[i]]] :
     sz \in SeqsUpTo(0..MaxItemSize, MaxItems)}

GroupInit ==
  /\ items \in GroupInputs
  /\ maxSize \in 0..MaxMaxSize
  /\ groups = <<>>
  /\ gpc = "start"
  /\ DiffIdle /\ WalkIdle /\ RetryIdle /\ StreamIdle /\ FoldIdle /\ AnalyzeIdle
  /\ SessionIdle

\* const groups = [...groupBySize(items, maxSize, getSize)]
RunGroupBySize ==
  /\ gpc = "start"
  /\ groups' = groupBySize(items, maxSize)
  /\ gpc' = "done"
  /\ UNCHANGED <<items, maxSize, dvars, wvars, rvars, tvars, fvars, avars, svars>>

InitGroup == GroupInit
NextGroup == RunGroupBySize
SpecGroup == InitGroup /\ [][NextGroup]_vars

(***************************************************************************)
(* History walker: getCommitDiffs, getTagDiffs (git-service.js:304-555)    *)
(***************************************************************************)
\* references handed to git.diff
EMPTY_TREE_HASH == <<"empty-tree", 0>>
HEAD == <<"HEAD", 0>>
Commit(k) == <<"commit", k>>
Tag(name) == <<"tag", name>>
\* fromTag = null
NULL == <<>>

\* JavaScript arrays are indexed from 0
At(arr, k) == arr[k + 1]

\* what one call of git.diff gives back: it throws, or it resolves to a text
GitDiffOutcomes ==
  { [threw |-> TRUE, text |-> <<>>],
    [threw |-> FALSE, text |-> <<>>],
    [threw |-> FALSE, text |-> HeaderLine(PATH_MD, PATH_MD) \o LF \o <<"+","x">>],
    [threw |-> FALSE, text |-> HeaderLine(PATH_GO, PATH_GO) \o LF \o <<"+","x">>] }

\* the record pushed for one comparison
DiffRecord(from, to, text) == [from |-> from, to |-> to, diff |-> text]

\* if (diff) { filteredDiff = filterSourceFiles(diff, projectType);
\*             if (filteredDiff) diffs.push({...}) }
pushIfSource(ds, from, to, text, type) ==
  IF text # <<>> /\ filterSourceFiles(text, type) # <<>>
    THEN Append(ds, DiffRecord(from, to, filterSourceFiles(text, type)))
    ELSE ds

\* getTagDiffs does not test the raw text before filtering it
pushIfSourceTag(ds, from, to, text, type) ==
  IF filterSourceFiles(text, type) # <<>>
    THEN Append(ds, DiffRecord(from, to, filterSourceFiles(text, type)))
    ELSE ds

\* one git.diff([from, to]) as the log of calls sees it
Logged(from, to, o) == [from |-> from, to |-> to, threw |-> o.threw, text |-> o.text]

\* the tags are left in the order git lists them
insertUnsorted(sorted, t) == Append(sorted, t)

\* sortedTags.sort((a, b) => a.date - b.date): insertion keeps equal dates in order
RECURSIVE insertByDate(_, _)
insertByDate(sorted, t) ==
  IF sorted = <<>> THEN <<t>>
  ELSE IF t.date < Head(sorted).date THEN <<t>> \o sorted
  ELSE <<Head(sorted)>> \o insertByDate(Tail(sorted), t)

RECURSIVE sortByDate(_)
sortByDate(ts) ==
  IF ts = <<>> THEN <<>>
  ELSE insertByDate(sortByDate(SubSeq(ts, 1, Len(ts) - 1)), ts[Len(ts)])

\* an absent tag is taken for the first one
findIndexOrFirst(ts, name) ==
  LET hits == {k \in 1..Len(ts) : ts[k].name = name} IN
  IF hits = {} THEN 0 ELSE Min(hits) - 1

\* sortedTags.findIndex(tag => tag.name === fromTag), 0-based, -1 when absent
findIndex(ts, name) ==
  LET hits == {k \in 1..Len(ts) : ts[k].name = name} IN
  IF hits = {} THEN -1 ELSE Min(hits) - 1

DatePermutations(n) == {f \in [1..n -> 1..n] : \A a, b \in 1..n : a # b => f[a] # f[b]}

\* tags.all: names 1..k in the order git lists them, each with its date
TagLists ==
  UNION {{[j \in 1..k |-> [name |-> j, date |-> f[j]]] : f \in DatePermutations(k)} :
           k \in 0..MaxTags}

WalkTypes == {"go", "node"}

WalkInit ==
  /\ walkMode \in {"commit", "tag"}
  /\ walkType \in WalkTypes
  /\ IF walkMode = "commit"
       THEN /\ commitList \in {[k \in 1..n |-> Commit(k - 1)] : n \in 0..MaxCommits}
            /\ groupSize \in 1..MaxGroupSize
            /\ tagsAll = <<>> /\ fromTag = NULL
       ELSE /\ commitList = <<>> /\ groupSize = 1
            /\ tagsAll \in TagLists
            /\ fromTag \in {NULL} \cup {<<name>> : name \in 1..(MaxTags + 1)}
  /\ sortedTags = <<>>
  /\ wi = 0 /\ lastProcessedIndex = 0
  /\ diffs = <<>> /\ gitDiffLog = <<>>
  /\ walkResult = <<>>
  /\ wpc = "start"

\* return diffs
Return(ds) == walkResult' = [kind |-> "returned", diffs |-> ds] /\ wpc' = "done"
\* the promise is rejected: nothing is returned
Reject(err) == walkResult' = [kind |-> "rejected", error |-> err] /\ wpc' = "failed"

\* a history without commits is compared against HEAD all the same
GetCommitDiffsStartComparesHead ==
  /\ wpc = "start" /\ walkMode = "commit"
  /\ IF Len(commitList) = 0
       THEN /\ gitDiffLog' = Append(gitDiffLog,
                 Logged(EMPTY_TREE_HASH, HEAD, [threw |-> TRUE, text |-> <<>>]))
            /\ Return(diffs)
       ELSE /\ wpc' = IF groupSize = 1 THEN "each"
                      ELSE IF groupSize >= Len(commitList) THEN "headOnly"
                      ELSE "firstNth"
            /\ UNCHANGED <<walkResult, gitDiffLog>>
  /\ wi' = 0
  /\ UNCHANGED <<wparams, sortedTags, lastProcessedIndex, diffs, gvars, dvars, rvars, tvars, fvars, avars, svars>>

\* getCommitDiffs up to its first git.diff: git.log(), reverse, branch on groupSize
GetCommitDiffsStart ==
  /\ wpc = "start" /\ walkMode = "commit"
  /\ IF Len(commitList) = 0
       THEN Return(diffs)
       ELSE /\ wpc' = IF groupSize = 1 THEN "each"
                      ELSE IF groupSize >= Len(commitList) THEN "headOnly"
                      ELSE "firstNth"
            /\ UNCHANGED walkResult
  /\ wi' = 0
  /\ UNCHANGED <<wparams, sortedTags, lastProcessedIndex, diffs, gitDiffLog, gvars, dvars, rvars, tvars, fvars, avars, svars>>

\* groupSize === 1: one iteration of the loop over every commit
CommitEachStep ==
  /\ wpc = "each"
  /\ \E o \in GitDiffOutcomes :
       LET currentCommit == At(commitList, wi)
           previousCommit == IF wi = 0 THEN EMPTY_TREE_HASH ELSE At(commitList, wi - 1)
           ds == IF o.threw THEN diffs
                 ELSE pushIfSource(diffs, previousCommit, currentCommit, o.text, walkType)
       IN /\ gitDiffLog' = Append(gitDiffLog, Logged(previousCommit, currentCommit, o))
          /\ diffs' = ds
          /\ wi' = wi + 1
          /\ IF wi + 1 < Len(commitList)
               THEN UNCHANGED <<wpc, walkResult>>
               ELSE Return(ds)
  /\ UNCHANGED <<wparams, sortedTags, lastProcessedIndex, gvars, dvars, rvars, tvars, fvars, avars, svars>>

\* the empty tree is compared with the oldest commit instead of the newest
CommitHeadOnlyOldest ==
  /\ wpc = "headOnly"
  /\ \E o \in GitDiffOutcomes :
       LET headCommit == At(commitList, 0)
           ds == IF o.threw THEN diffs
                 ELSE pushIfSource(diffs, EMPTY_TREE_HASH, headCommit, o.text, walkType)
       IN /\ gitDiffLog' = Append(gitDiffLog, Logged(EMPTY_TREE_HASH, headCommit, o))
          /\ diffs' = ds
          /\ Return(ds)
  /\ UNCHANGED <<wparams, sortedTags, wi, lastProcessedIndex, gvars, dvars, rvars, tvars, fvars, avars, svars>>

\* groupSize > 1 and startIndex >= commitList.length: empty tree to HEAD, return
CommitHeadOnly ==
  /\ wpc = "headOnly"
  /\ \E o \in GitDiffOutcomes :
       LET headCommit == At(commitList, Len(commitList) - 1)
           ds == IF o.threw THEN diffs
                 ELSE pushIfSource(diffs, EMPTY_TREE_HASH, headCommit, o.text, walkType)
       IN /\ gitDiffLog' = Append(gitDiffLog, Logged(EMPTY_TREE_HASH, headCommit, o))
          /\ diffs' = ds
          /\ Return(ds)
  /\ UNCHANGED <<wparams, sortedTags, wi, lastProcessedIndex, gvars, dvars, rvars, tvars, fvars, avars, svars>>

\* the trailing comparison is made even when the last group ends at HEAD
AfterGroupAlwaysTail(next, last, ds) ==
  IF next < Len(commitList)
    THEN wpc' = "group" /\ UNCHANGED walkResult
    ELSE wpc' = "tail" /\ UNCHANGED walkResult

\* the walk returns after the last whole group
AfterGroupNoTail(next, last, ds) ==
  IF next < Len(commitList)
    THEN wpc' = "group" /\ UNCHANGED walkResult
    ELSE Return(ds)

\* where the walk goes after the comparison that ended at index last, when
\* the loop variable is next
AfterGroup(next, last, ds) ==
  IF next < Len(commitList)
    THEN wpc' = "group" /\ UNCHANGED walkResult
    ELSE IF last < Len(commitList) - 1
      THEN wpc' = "tail" /\ UNCHANGED walkResult
      ELSE Return(ds)

\* groupSize > 1: the first comparison, nth commit against the empty tree
CommitFirstNth ==
  /\ wpc = "firstNth"
  /\ \E o \in GitDiffOutcomes :
       LET startIndex == groupSize
           firstNthCommit == At(commitList, startIndex)
           ds == IF o.threw THEN diffs
                 ELSE pushIfSource(diffs, EMPTY_TREE_HASH, firstNthCommit, o.text, walkType)
       IN /\ gitDiffLog' = Append(gitDiffLog, Logged(EMPTY_TREE_HASH, firstNthCommit, o))
          /\ diffs' = ds
          /\ lastProcessedIndex' = startIndex
          /\ wi' = startIndex + groupSize
          /\ AfterGroup(startIndex + groupSize, startIndex, ds)
  /\ UNCHANGED <<wparams, sortedTags, gvars, dvars, rvars, tvars, fvars, avars, svars>>

\* groupSize > 1: one iteration of the loop wi = 2n, 3n, ...
CommitGroupStep ==
  /\ wpc = "group"
  /\ \E o \in GitDiffOutcomes :
       LET currentCommit == At(commitList, wi)
           previousNthCommit == At(commitList, wi - groupSize)
           ds == IF o.threw THEN diffs
                 ELSE pushIfSource(diffs, previousNthCommit, currentCommit, o.text, walkType)
       IN /\ gitDiffLog' = Append(gitDiffLog, Logged(previousNthCommit, currentCommit, o))
          /\ diffs' = ds
          /\ lastProcessedIndex' = wi
          /\ wi' = wi + groupSize
          /\ AfterGroup(wi + groupSize, wi, ds)
  /\ UNCHANGED <<wparams, sortedTags, gvars, dvars, rvars, tvars, fvars, avars, svars>>

\* groupSize > 1: the remaining commits up to HEAD
CommitTail ==
  /\ wpc = "tail"
  /\ \E o \in GitDiffOutcomes :
       LET lastProcessedCommit == At(commitList, lastProcessedIndex)
           headCommit == At(commitList, Len(commitList) - 1)
           ds == IF o.threw THEN diffs
                 ELSE pushIfSource(diffs, lastProcessedCommit, headCommit, o.text, walkType)
       IN /\ gitDiffLog' = Append(gitDiffLog, Logged(lastProcessedCommit, headCommit, o))
          /\ diffs' = ds
          /\ Return(ds)
  /\ UNCHANGED <<wparams, sortedTags, wi, lastProcessedIndex, gvars, dvars, rvars, tvars, fvars, avars, svars>>

\* getTagDiffs up to its first git.diff: git.tags(), git.show per tag, sort,
\* findIndex
GetTagDiffsStart ==
  /\ wpc = "start" /\ walkMode = "tag"
  /\ IF Len(tagsAll) = 0 /\ fromTag = NULL
       THEN /\ wpc' = "noTags"
            /\ UNCHANGED <<sortedTags, wi, walkResult>>
       ELSE LET sorted == sortByDate(tagsAll)
                startIndex == IF fromTag # NULL THEN findIndex(sorted, fromTag[1]) ELSE 0
            IN /\ sortedTags' = sorted
               /\ IF fromTag # NULL /\ startIndex = -1
                    THEN /\ Reject([message |-> "not found", tag |-> fromTag[1]])
                         /\ UNCHANGED wi
                    ELSE /\ wi' = startIndex
                         /\ wpc' = IF fromTag = NULL /\ Len(sorted) > 0 THEN "firstTag"
                                   ELSE IF startIndex < Len(sorted) - 1 THEN "pair"
                                   ELSE "lastTag"
                         /\ UNCHANGED walkResult
  /\ UNCHANGED <<wparams, lastProcessedIndex, diffs, gitDiffLog, gvars, dvars, rvars, tvars, fvars, avars, svars>>

\* no tags and no fromTag: empty tree to HEAD, return
TagNoTags ==
  /\ wpc = "noTags"
  /\ \E o \in GitDiffOutcomes :
       /\ gitDiffLog' = Append(gitDiffLog, Logged(EMPTY_TREE_HASH, HEAD, o))
       /\ IF o.threw
            THEN Reject([message |-> "git diff failed", tag |-> 0]) /\ UNCHANGED diffs
            ELSE LET ds == pushIfSourceTag(<<>>, EMPTY_TREE_HASH, HEAD, o.text, walkType)
                 IN diffs' = ds /\ Return(ds)
  /\ UNCHANGED <<wparams, sortedTags, wi, lastProcessedIndex, gvars, dvars, rvars, tvars, fvars, avars, svars>>

\* no fromTag: empty tree to the first tag
TagFirst ==
  /\ wpc = "firstTag"
  /\ \E o \in GitDiffOutcomes :
       LET firstTag == Tag(At(sortedTags, 0).name) IN
       /\ gitDiffLog' = Append(gitDiffLog, Logged(EMPTY_TREE_HASH, firstTag, o))
       /\ IF o.threw
            THEN Reject([message |-> "git diff failed", tag |-> 0]) /\ UNCHANGED diffs
            ELSE /\ diffs' = pushIfSourceTag(diffs, EMPTY_TREE_HASH, firstTag, o.text, walkType)
                 /\ wpc' = IF wi < Len(sortedTags) - 1 THEN "pair" ELSE "lastTag"
                 /\ UNCHANGED walkResult
  /\ UNCHANGED <<wparams, sortedTags, wi, lastProcessedIndex, gvars, dvars, rvars, tvars, fvars, avars, svars>>

\* one iteration of the loop over consecutive tags
TagPairStep ==
  /\ wpc = "pair"
  /\ \E o \in GitDiffOutcomes :
       LET currentTag == Tag(At(sortedTags, wi).name)
           nextTag == Tag(At(sortedTags, wi + 1).name)
       IN
       /\ gitDiffLog' = Append(gitDiffLog, Logged(currentTag, nextTag, o))
       /\ IF o.threw
            THEN Reject([message |-> "git diff failed", tag |-> 0]) /\ UNCHANGED <<diffs, wi>>
            ELSE /\ diffs' = pushIfSourceTag(diffs, currentTag, nextTag, o.text, walkType)
                 /\ wi' = wi + 1
                 /\ wpc' = IF wi + 1 < Len(sortedTags) - 1 THEN "pair" ELSE "lastTag"
                 /\ UNCHANGED walkResult
  /\ UNCHANGED <<wparams, sortedTags, lastProcessedIndex, gvars, dvars, rvars, tvars, fvars, avars, svars>>

\* the last tag to HEAD, return
TagHead ==
  /\ wpc = "lastTag"
  /\ \E o \in GitDiffOutcomes :
       LET lastTag == Tag(At(sortedTags, Len(sortedTags) - 1).name) IN
       /\ gitDiffLog' = Append(gitDiffLog, Logged(lastTag, HEAD, o))
       /\ IF o.threw
            THEN Reject([message |-> "git diff failed", tag |-> 0]) /\ UNCHANGED diffs
            ELSE LET ds == pushIfSourceTag(diffs, lastTag, HEAD, o.text, walkType)
                 IN diffs' = ds /\ Return(ds)
  /\ UNCHANGED <<wparams, sortedTags, wi, lastProcessedIndex, gvars, dvars, rvars, tvars, fvars, avars, svars>>

\* the caller's catch (progress-service.js:308-329, part_006:90-92): a
\* not-found error lists the tags of git.tags(), any other error is displayed
ReportWalkError ==
  /\ wpc = "failed"
  /\ walkResult' =
       IF walkResult.error.message = "not found"
         THEN [kind |-> "tagNotFound", tag |-> walkResult.error.tag,
               available |-> [k \in 1..Len(tagsAll) |-> tagsAll[k].name]]
         ELSE [kind |-> "errorDisplayed", tag |-> 0, available |-> <<>>]
  /\ wpc' = "reported"
  /\ UNCHANGED <<wparams, sortedTags, wi, lastProcessedIndex, diffs, gitDiffLog,
                 gvars, dvars, rvars, tvars, fvars, avars, svars>>

InitWalk ==
  WalkInit /\ GroupIdle /\ DiffIdle /\ RetryIdle /\ StreamIdle /\ FoldIdle /\ AnalyzeIdle
    /\ SessionIdle
NextWalk ==
  \/ GetCommitDiffsStart \/ CommitEachStep \/ CommitHeadOnly
  \/ CommitFirstNth \/ CommitGroupStep \/ CommitTail
  \/ GetTagDiffsStart \/ TagNoTags \/ TagFirst \/ TagPairStep \/ TagHead
  \/ ReportWalkError
SpecWalk == InitWalk /\ [][NextWalk]_vars

(***************************************************************************)
(* Model gateway: query, chat, _retryWithDelay (part_003:45-98, 197-206)   *)
(***************************************************************************)
\* CONFIG of the client
CONFIG == [retryAttempts |-> 3, retryDelay |-> 1000, maxTokens |-> 4096]

\* what one call of fn() does: fetch rejects, the status is not ok, reading
\* the stream fails, or _processStream returns a text
AttemptOutcomes ==
  { [ok |-> FALSE, what |-> "fetch failed"],
    [ok |-> FALSE, what |-> "HTTP error"],
    [ok |-> FALSE, what |-> "read failed"],
    [ok |-> TRUE, what |-> "text"] }

\* the value or the error of the k-th call of fn()
AttemptResult(k, o) == [attempt |-> k, ok |-> o.ok, what |-> o.what]

\* every wait lasts retryDelay
delayConstant(k, delay) == delay

\* setTimeout(resolve, this.config.retryDelay * (i + 1)), i counted from 0
retryWait(k, delay) == delay * (k + 1)

RetryInit ==
  /\ callKind \in {"query", "chat"}
  /\ retries \in 0..MaxRetryAttempts
  /\ retryDelay \in {CONFIG.retryDelay, 1}
  /\ ri = 0
  /\ attemptLog = <<>> /\ sleepLog = <<>>
  /\ callResult = <<>>
  /\ rpc = "enter"

\* for (let i = 0; i < retries; i++): with retries = 0 the body never runs
\* and the function returns undefined
RetryEnter ==
  /\ rpc = "enter"
  /\ IF retries > 0
       THEN rpc' = "call" /\ UNCHANGED callResult
       ELSE rpc' = "done" /\ callResult' = [kind |-> "returned", value |-> <<>>]
  /\ UNCHANGED <<callKind, retries, retryDelay, ri, attemptLog, sleepLog,
                 gvars, dvars, wvars, tvars, fvars, avars, svars>>

\* try { return await fn() } catch (error) { if (i === retries - 1) throw error; ... }
RetryAttempt ==
  /\ rpc = "call"
  /\ \E o \in AttemptOutcomes :
       LET r == AttemptResult(ri + 1, o) IN
       /\ attemptLog' = Append(attemptLog, r)
       /\ IF o.ok
            THEN rpc' = "done" /\ callResult' = [kind |-> "returned", value |-> <<r>>]
            ELSE IF ri = retries - 1
              THEN rpc' = "done" /\ callResult' = [kind |-> "thrown", value |-> <<r>>]
              ELSE rpc' = "sleep" /\ UNCHANGED callResult
  /\ UNCHANGED <<callKind, retries, retryDelay, ri, sleepLog, gvars, dvars, wvars, tvars, fvars, avars, svars>>

\* await new Promise(resolve => setTimeout(resolve, retryDelay * (i + 1))); i++
RetrySleep ==
  /\ rpc = "sleep"
  /\ sleepLog' = Append(sleepLog, retryWait(ri, retryDelay))
  /\ ri' = ri + 1
  /\ rpc' = "call"
  /\ UNCHANGED <<callKind, retries, retryDelay, attemptLog, callResult,
                 gvars, dvars, wvars, tvars, fvars, avars, svars>>

InitRetry ==
  RetryInit /\ GroupIdle /\ DiffIdle /\ WalkIdle /\ StreamIdle /\ FoldIdle /\ AnalyzeIdle
    /\ SessionIdle
NextRetry == RetryEnter \/ RetryAttempt \/ RetrySleep
SpecRetry == InitRetry /\ [][NextRetry]_vars

(***************************************************************************)
(* Model gateway: _processStream (part_003:101-181)                        *)
(*                                                                         *)
(* and its earlier variant (services/ollama.js:78-145)                     *)
(*                                                                         *)
(* The response body is a sequence of pieces of text: the opening and the  *)
(* closing of a JSON fragment, payload characters, blanks and line feeds.  *)
(* The transport may cut the body between any two pieces.                  *)
(***************************************************************************)
\* if (buffer.length > 10000) of the earlier variant
BUFFER_LIMIT == 10000

\* a run of BUFFER_LIMIT + 1 payload characters
LONG_TEXT == "x..."

\* groupBySize(validFeatures, 4000) of the folds
FOLD_GROUP_SIZE == 4000

\* a run of characters longer than half of FOLD_GROUP_SIZE: two of them do
\* not fit into one group
HALF_TEXT == "y..."

\* string.length of a piece and of a text
pieceLength(p) ==
  IF p = LONG_TEXT THEN BUFFER_LIMIT + 1
  ELSE IF p = HALF_TEXT THEN (FOLD_GROUP_SIZE \div 2) + 1
  ELSE Len(p)

RECURSIVE textLength(_)
textLength(t) == IF t = <<>> THEN 0 ELSE pieceLength(Head(t)) + textLength(Tail(t))

\* {"response":"
OPEN_RESPONSE == "{\"response\":\""
\* "}
CLOSE_RESPONSE == "\"}"
\* {"message":{"content":"
OPEN_MESSAGE == "{\"message\":{\"content\":\""
\* "},"done":false}
CLOSE_NOT_DONE == "\"},\"done\":false}"
\* "},"done":true}
CLOSE_DONE == "\"},\"done\":true}"

PayloadChars == {"a", "b", " ", LONG_TEXT}

\* the value of a property that the parsed object does not have
ABSENT == <<"undefined">>

\* JSON.parse(line): [ok |-> FALSE] stands for a SyntaxError
JSONparse(line) ==
  LET t == trim(line)
      n == Len(t)
      body == SubSeq(t, 2, n - 1)
      bad == [ok |-> FALSE, response |-> ABSENT, content |-> ABSENT, done |-> FALSE]
  IN IF n < 2 \/ \E k \in 1..Len(body) : body[k] \notin PayloadChars
       THEN bad
     ELSE IF t[1] = OPEN_RESPONSE /\ t[n] = CLOSE_RESPONSE
       THEN [ok |-> TRUE, response |-> body, content |-> ABSENT, done |-> FALSE]
     ELSE IF t[1] = OPEN_MESSAGE /\ t[n] \in {CLOSE_NOT_DONE, CLOSE_DONE}
       THEN [ok |-> TRUE, response |-> ABSENT, content |-> body,
             done |-> (t[n] = CLOSE_DONE)]
     ELSE bad

\* value || ''
orEmpty(v) == IF v = ABSENT THEN <<>> ELSE v

\* the content of a fragment flagged done is added as well
_processChatStreamAddsDone(parsed, currentText) ==
  currentText \o orEmpty(parsed.content)

_processChatStream(parsed, currentText) ==
  LET content == orEmpty(parsed.content) IN
  IF content # <<>> /\ ~parsed.done THEN currentText \o content ELSE currentText

_processQueryStream(parsed, currentText) ==
  LET content == orEmpty(parsed.response) IN
  IF content # <<>> THEN currentText \o content ELSE currentText

\* try { parsed = JSON.parse(text); fullText = isChat ? ... : ... } catch (e) {}
parseInto(text, chat, currentText) ==
  LET parsed == JSONparse(text) IN
  IF ~parsed.ok THEN currentText
  ELSE IF chat THEN _processChatStream(parsed, currentText)
  ELSE _processQueryStream(parsed, currentText)

\* the inner while (true): take the complete lines out of the buffer
RECURSIVE drainLines(_, _, _)
drainLines(buf, chat, currentText) ==
  LET newlineIndex == indexOf(buf, LF) IN
  IF newlineIndex = 0 THEN [buffer |-> buf, fullText |-> currentText]
  ELSE LET line == SubSeq(buf, 1, newlineIndex - 1)
           rest == SubSeq(buf, newlineIndex + 1, Len(buf))
       IN IF trim(line) = <<>>
            THEN drainLines(rest, chat, currentText)
            ELSE drainLines(rest, chat, parseInto(line, chat, currentText))

\* the inner while of the earlier variant: after a parse error a buffer of
\* more than BUFFER_LIMIT characters is cleared
RECURSIVE drainLinesClearing(_, _)
drainLinesClearing(buf, currentText) ==
  LET newlineIndex == indexOf(buf, LF) IN
  IF newlineIndex = 0 THEN [buffer |-> buf, fullText |-> currentText]
  ELSE LET line == SubSeq(buf, 1, newlineIndex - 1)
           rest == SubSeq(buf, newlineIndex + 1, Len(buf))
       IN IF trim(line) = <<>>
            THEN drainLinesClearing(rest, currentText)
          ELSE IF JSONparse(line).ok
            THEN drainLinesClearing(rest, parseInto(line, FALSE, currentText))
          ELSE IF textLength(rest) > BUFFER_LIMIT
            THEN drainLinesClearing(<<>>, currentText)
          ELSE drainLinesClearing(rest, currentText)

\* the unbuffered variant (ollama.js:458-489): the non-empty lines of the
\* chunk itself are parsed, nothing is carried over to the next chunk
RECURSIVE parseLines(_, _)
parseLines(lines, currentText) ==
  IF lines = <<>> THEN currentText
  ELSE parseLines(Tail(lines), parseInto(Head(lines), FALSE, currentText))

unbufferedLines(chunk, currentText) ==
  [buffer |-> <<>>,
   fullText |-> parseLines(SelectSeq(split(chunk, LF), LAMBDA l : l # <<>>),
                           currentText)]

\* the lines a response body is made of
Fragments ==
  { <<OPEN_RESPONSE, "a", CLOSE_RESPONSE>>,
    <<" ", OPEN_RESPONSE, "b", CLOSE_RESPONSE>>,
    <<OPEN_RESPONSE, LONG_TEXT, CLOSE_RESPONSE>>,
    <<OPEN_RESPONSE, "a">>,
    <<OPEN_MESSAGE, "a", CLOSE_NOT_DONE>>,
    <<OPEN_MESSAGE, "b", CLOSE_NOT_DONE>>,
    <<OPEN_MESSAGE, "b", CLOSE_DONE>>,
    <<>> }

StreamBodies == {join(ls, LF) : ls \in SeqsUpTo(Fragments, MaxFragments)}

\* the earlier and the unbuffered variant have no chat mode
StreamInit ==
  /\ client \in {"current", "earlier", "unbuffered"}
  /\ isChat \in IF client = "current" THEN BOOLEAN ELSE {FALSE}
  /\ stream \in StreamBodies
  /\ unread = stream
  /\ buffer = <<>>
  /\ fullText = <<>>
  /\ locked = TRUE
  /\ tpc = "reading"

\* reader.read() resolves with a chunk: decode it into the buffer and take
\* the complete lines out
StreamRead ==
  /\ tpc = "reading"
  /\ \E n \in 1..Len(unread) :
       LET chunk == SubSeq(unread, 1, n)
           st == IF client = "current"
                   THEN drainLines(buffer \o chunk, isChat, fullText)
                   ELSE IF client = "earlier"
                     THEN drainLinesClearing(buffer \o chunk, fullText)
                   ELSE unbufferedLines(chunk, fullText)
       IN /\ unread' = SubSeq(unread, n + 1, Len(unread))
          /\ buffer' = st.buffer
          /\ fullText' = st.fullText
  /\ UNCHANGED <<client, isChat, stream, locked, tpc, gvars, dvars, wvars, rvars, fvars, avars, svars>>

\* reader.read() resolves with done: parse what is left in the buffer,
\* release the lock, return fullText
StreamEnd ==
  /\ tpc = "reading"
  /\ unread = <<>>
  /\ fullText' = IF trim(buffer) # <<>> THEN parseInto(buffer, isChat, fullText)
                 ELSE fullText
  /\ locked' = FALSE
  /\ tpc' = "returned"
  /\ UNCHANGED <<client, isChat, stream, unread, buffer, gvars, dvars, wvars, rvars, fvars, avars, svars>>

\* reader.read() rejects: the finally block releases the lock and the error
\* leaves _processStream
StreamReadFails ==
  /\ tpc = "reading"
  /\ locked' = FALSE
  /\ tpc' = "thrown"
  /\ UNCHANGED <<client, isChat, stream, unread, buffer, fullText, gvars, dvars, wvars, rvars, fvars, avars, svars>>

InitStream ==
  StreamInit /\ GroupIdle /\ DiffIdle /\ WalkIdle /\ RetryIdle /\ FoldIdle /\ AnalyzeIdle
    /\ SessionIdle
NextStream == StreamRead \/ StreamEnd \/ StreamReadFails
SpecStream == InitStream /\ [][NextStream]_vars

(***************************************************************************)
(* Folds: summarizeFeatures, updateDoc (part_001:116-215) and their        *)
(* callers consolidateFeatures, generateDocumentation                      *)
(* (feature-service.js:63-84, 117-140)                                     *)
(*                                                                         *)
(* A chat call stands for the whole gateway call, retries included: it     *)
(* resolves with the reply or rejects with the last error.                 *)
(***************************************************************************)
fparams == <<docOp, analyzerVariant, allFeatures, hasFilePath>>

\* return 'No features to summarize'
SENTINEL == <<"No features to summarize">>

\* readFile of a file that does not exist
ENOENT == <<"ENOENT">>

\* only the empty entries are dropped
validFeaturesKeepBlank(feats, variant) ==
  SelectSeq(IF variant = "earlier" THEN split(join(feats, LF), LF) ELSE feats,
            LAMBDA f : f # <<>>)

\* features.filter(f => f && f.trim()); the earlier variant
\* (git-analyzer.js:103-104) first flattens the entries into lines
validFeatures(feats, variant) ==
  SelectSeq(IF variant = "earlier" THEN split(join(feats, LF), LF) ELSE feats,
            LAMBDA f : f # <<>> /\ trim(f) # <<>>)

\* [...groupBySize(validFeatures, 4000)] with getSize = item => item.length
chunksOf(valid) ==
  LET gs == groupBySize([k \in 1..Len(valid) |->
                           [id |-> valid[k], size |-> textLength(valid[k])]],
                        FOLD_GROUP_SIZE)
  IN [g \in 1..Len(gs) |-> [k \in 1..Len(gs[g]) |-> gs[g][k].id]]

\* the system message of a fold
SystemMessage(kind) ==
  [role |-> "system", kind |-> kind, chunk |-> <<>>, embedded |-> <<>>, text |-> <<>>]

\* promptContent: the first prompt of updateDoc embeds the document, every
\* later prompt embeds the running summary
promptContent(kind, i, chunk, text, summary) ==
  [role |-> "user",
   kind |-> IF i = 0 THEN "first" ELSE "more",
   chunk |-> join(chunk, LF),
   embedded |-> IF i > 0 THEN summary
                ELSE IF kind = "updateDoc" THEN text ELSE <<>>,
   text |-> <<>>]

AssistantMessage(text) ==
  [role |-> "assistant", kind |-> "reply", chunk |-> <<>>, embedded |-> <<>>,
   text |-> text]

FeatureTexts == { <<>>, <<" ">>, <<"f">>, <<HALF_TEXT>>, <<"g", "\n", "h">> }
DocTexts == { <<>>, <<" ", "d", "\n">> }
ChatOutcomes ==
  { [threw |-> TRUE, text |-> <<>>],
    [threw |-> FALSE, text |-> <<"s">>],
    [threw |-> FALSE, text |-> <<" ", "t", "\n">>] }

FoldInit ==
  /\ docOp \in {"summarizeFeatures", "updateDoc", "consolidateFeatures",
                "generateDocumentation"}
  /\ analyzerVariant \in IF docOp = "summarizeFeatures" THEN {"current", "earlier"}
                         ELSE {"current"}
  /\ allFeatures \in SeqsUpTo(FeatureTexts, MaxFeatures)
  /\ features \in IF docOp \in {"consolidateFeatures", "generateDocumentation"}
                    THEN {<<>>, <<"o">>} ELSE {<<>>}
  /\ hasFilePath \in IF docOp = "generateDocumentation" THEN BOOLEAN ELSE {FALSE}
  /\ fileContent \in IF hasFilePath THEN {ENOENT} \cup DocTexts ELSE {ENOENT}
  /\ foldText \in IF docOp = "updateDoc" THEN DocTexts ELSE {<<>>}
  /\ fileLog = <<>>
  /\ foldKind = "none" /\ foldChunks = <<>> /\ fi = 0
  /\ messages = <<>> /\ globalSummary = <<>> /\ chatLog = <<>>
  /\ foldResult = <<>>
  /\ fpc = "start"

Throw(err) == foldResult' = [kind |-> "thrown", value |-> err] /\ fpc' = "failed"

\* the fold has returned result to its caller: this.features = await ...
Finish(result) ==
  IF docOp \in {"summarizeFeatures", "updateDoc"}
    THEN /\ foldResult' = [kind |-> "returned", value |-> result]
         /\ fpc' = "done"
         /\ UNCHANGED features
  ELSE IF docOp = "generateDocumentation" /\ hasFilePath
    THEN \* await fs.writeFile(resolve(repoPath, filePath), this.features)
         /\ features' = result
         /\ fpc' = "writing"
         /\ UNCHANGED foldResult
  ELSE /\ features' = result
       /\ foldResult' = [kind |-> "returned", value |-> result]
       /\ fpc' = "done"

\* the document is returned trimmed
noFeaturesResultTrimmed(kind, text) ==
  IF kind = "summarize" THEN SENTINEL ELSE trim(text)

\* if (validFeatures.length === 0) return 'No features to summarize' / text
noFeaturesResult(kind, text) ==
  IF kind = "summarize" THEN SENTINEL ELSE text

\* summarizeFeatures / updateDoc up to the first await chat(messages)
StartFold(kind, text, feats) ==
  LET valid == validFeatures(feats, analyzerVariant)
      ch == chunksOf(valid)
  IN /\ foldKind' = kind /\ foldText' = text /\ foldChunks' = ch /\ fi' = 0
     /\ IF Len(valid) = 0
          THEN /\ messages' = <<>> /\ globalSummary' = <<>>
               /\ UNCHANGED chatLog
               /\ Finish(noFeaturesResult(kind, text))
          ELSE LET msgs == <<SystemMessage(kind),
                             promptContent(kind, 0, ch[1], text, <<>>)>>
               IN /\ messages' = msgs
                  /\ globalSummary' = IF kind = "updateDoc" THEN text ELSE <<>>
                  /\ chatLog' = Append(chatLog, msgs)
                  /\ fpc' = "chat"
                  /\ UNCHANGED <<features, foldResult>>

\* summarizeFeatures(features) called directly
SummarizeFeaturesCall ==
  /\ fpc = "start" /\ docOp = "summarizeFeatures"
  /\ StartFold("summarize", <<>>, allFeatures)
  /\ UNCHANGED <<fparams, fileContent, fileLog, gvars, dvars, wvars, rvars, tvars, avars, svars>>

\* updateDoc(text, features) called directly
UpdateDocCall ==
  /\ fpc = "start" /\ docOp = "updateDoc"
  /\ StartFold("updateDoc", foldText, allFeatures)
  /\ UNCHANGED <<fparams, fileContent, fileLog, gvars, dvars, wvars, rvars, tvars, avars, svars>>

\* FeatureService.consolidateFeatures
ConsolidateFeaturesCall ==
  /\ fpc = "start" /\ docOp = "consolidateFeatures"
  /\ IF Len(allFeatures) = 0
       THEN /\ Throw("No features to consolidate")
            /\ UNCHANGED <<features, foldKind, foldText, foldChunks, fi, messages,
                           globalSummary, chatLog>>
       ELSE StartFold("summarize", <<>>, allFeatures)
  /\ UNCHANGED <<fparams, fileContent, fileLog, gvars, dvars, wvars, rvars, tvars, avars, svars>>

\* FeatureService.generateDocumentation up to its first await
GenerateDocumentationCall ==
  /\ fpc = "start" /\ docOp = "generateDocumentation"
  /\ IF Len(allFeatures) = 0
       THEN /\ Throw("No features to document")
            /\ UNCHANGED <<features, foldKind, foldText, foldChunks, fi, messages,
                           globalSummary, chatLog>>
       ELSE IF hasFilePath
         THEN /\ fpc' = "reading"
              /\ UNCHANGED <<features, foldKind, foldText, foldChunks, fi, messages,
                             globalSummary, chatLog, foldResult>>
         ELSE StartFold("summarize", <<>>, allFeatures)
  /\ UNCHANGED <<fparams, fileContent, fileLog, gvars, dvars, wvars, rvars, tvars, avars, svars>>

\* content = await fs.readFile(...): a missing file leaves content empty,
\* any other error is rethrown; then updateDoc or summarizeFeatures starts
ReadFileDone ==
  /\ fpc = "reading"
  /\ \E failed \in BOOLEAN :
       IF failed /\ fileContent # ENOENT
         THEN /\ Throw("EACCES")
              /\ fileLog' = Append(fileLog, [op |-> "read", content |-> ENOENT])
              /\ UNCHANGED <<features, foldKind, foldText, foldChunks, fi, messages,
                             globalSummary, chatLog>>
         ELSE LET content == IF fileContent = ENOENT THEN <<>> ELSE fileContent IN
              /\ fileLog' = Append(fileLog, [op |-> "read", content |-> fileContent])
              /\ StartFold(IF content # <<>> THEN "updateDoc" ELSE "summarize",
                           content, allFeatures)
  /\ UNCHANGED <<fparams, fileContent, gvars, dvars, wvars, rvars, tvars, avars, svars>>

\* every reply is stored in this.features as soon as it arrives
ChatReplyStoresEachStep ==
  /\ fpc = "chat"
  /\ \E o \in ChatOutcomes :
       IF o.threw
         THEN /\ Throw("chat failed")
              /\ UNCHANGED <<features, fi, messages, globalSummary, chatLog>>
         ELSE LET kept == <<messages[1], messages[Len(messages)],
                            AssistantMessage(o.text)>>
              IN /\ globalSummary' = o.text
                 /\ fi' = fi + 1
                 /\ IF fi + 1 < Len(foldChunks)
                      THEN LET msgs == Append(kept,
                                  promptContent(foldKind, fi + 1, foldChunks[fi + 2],
                                                foldText, o.text))
                           IN /\ messages' = msgs
                              /\ chatLog' = Append(chatLog, msgs)
                              /\ features' = o.text
                              /\ UNCHANGED <<foldResult, fpc>>
                      ELSE /\ messages' = kept
                           /\ UNCHANGED chatLog
                           /\ Finish(trim(o.text))
  /\ UNCHANGED <<fparams, fileContent, fileLog, foldKind, foldText, foldChunks,
                 gvars, dvars, wvars, rvars, tvars, avars, svars>>

\* after a failed chat call the document file is written all the same
ChatReplyWritesOnFailure ==
  /\ fpc = "chat"
  /\ \E o \in ChatOutcomes :
       IF o.threw
         THEN /\ fpc' = IF hasFilePath THEN "writing" ELSE "failed"
              /\ foldResult' = IF hasFilePath THEN foldResult
                               ELSE [kind |-> "thrown", value |-> "chat failed"]
              /\ UNCHANGED <<features, fi, messages, globalSummary, chatLog>>
         ELSE LET kept == <<messages[1], messages[Len(messages)],
                            AssistantMessage(o.text)>>
              IN /\ globalSummary' = o.text
                 /\ fi' = fi + 1
                 /\ IF fi + 1 < Len(foldChunks)
                      THEN LET msgs == Append(kept,
                                  promptContent(foldKind, fi + 1, foldChunks[fi + 2],
                                                foldText, o.text))
                           IN /\ messages' = msgs
                              /\ chatLog' = Append(chatLog, msgs)
                              /\ UNCHANGED <<features, foldResult, fpc>>
                      ELSE /\ messages' = kept
                           /\ UNCHANGED chatLog
                           /\ Finish(trim(o.text))
  /\ UNCHANGED <<fparams, fileContent, fileLog, foldKind, foldText, foldChunks,
                 gvars, dvars, wvars, rvars, tvars, avars, svars>>

\* each reply is appended to the running summary
ChatReplyAppendsSummary ==
  /\ fpc = "chat"
  /\ \E o \in ChatOutcomes :
       IF o.threw
         THEN /\ Throw("chat failed")
              /\ UNCHANGED <<features, fi, messages, globalSummary, chatLog>>
         ELSE LET kept == <<messages[1], messages[Len(messages)],
                            AssistantMessage(o.text)>>
              IN /\ globalSummary' = globalSummary \o o.text
                 /\ fi' = fi + 1
                 /\ IF fi + 1 < Len(foldChunks)
                      THEN LET msgs == Append(kept,
                                  promptContent(foldKind, fi + 1, foldChunks[fi + 2],
                                                foldText, globalSummary \o o.text))
                           IN /\ messages' = msgs
                              /\ chatLog' = Append(chatLog, msgs)
                              /\ UNCHANGED <<features, foldResult, fpc>>
                      ELSE /\ messages' = kept
                           /\ UNCHANGED chatLog
                           /\ Finish(trim(globalSummary \o o.text))
  /\ UNCHANGED <<fparams, fileContent, fileLog, foldKind, foldText, foldChunks,
                 gvars, dvars, wvars, rvars, tvars, avars, svars>>

\* after a reply only the system message is kept
ChatReplyKeepsSystemOnly ==
  /\ fpc = "chat"
  /\ \E o \in ChatOutcomes :
       IF o.threw
         THEN /\ Throw("chat failed")
              /\ UNCHANGED <<features, fi, messages, globalSummary, chatLog>>
         ELSE LET kept == <<messages[1]>>
              IN /\ globalSummary' = o.text
                 /\ fi' = fi + 1
                 /\ IF fi + 1 < Len(foldChunks)
                      THEN LET msgs == Append(kept,
                                  promptContent(foldKind, fi + 1, foldChunks[fi + 2],
                                                foldText, o.text))
                           IN /\ messages' = msgs
                              /\ chatLog' = Append(chatLog, msgs)
                              /\ UNCHANGED <<features, foldResult, fpc>>
                      ELSE /\ messages' = kept
                           /\ UNCHANGED chatLog
                           /\ Finish(trim(o.text))
  /\ UNCHANGED <<fparams, fileContent, fileLog, foldKind, foldText, foldChunks,
                 gvars, dvars, wvars, rvars, tvars, avars, svars>>

\* the awaited chat(messages) settles; the loop goes on to the next chunk
\* or the fold returns
ChatReply ==
  /\ fpc = "chat"
  /\ \E o \in ChatOutcomes :
       IF o.threw
         THEN /\ Throw("chat failed")
              /\ UNCHANGED <<features, fi, messages, globalSummary, chatLog>>
         ELSE LET kept == <<messages[1], messages[Len(messages)],
                            AssistantMessage(o.text)>>
              IN /\ globalSummary' = o.text
                 /\ fi' = fi + 1
                 /\ IF fi + 1 < Len(foldChunks)
                      THEN LET msgs == Append(kept,
                                  promptContent(foldKind, fi + 1, foldChunks[fi + 2],
                                                foldText, o.text))
                           IN /\ messages' = msgs
                              /\ chatLog' = Append(chatLog, msgs)
                              /\ UNCHANGED <<features, foldResult, fpc>>
                      ELSE /\ messages' = kept
                           /\ UNCHANGED chatLog
                           /\ Finish(trim(o.text))
  /\ UNCHANGED <<fparams, fileContent, fileLog, foldKind, foldText, foldChunks,
                 gvars, dvars, wvars, rvars, tvars, avars, svars>>

\* the awaited fs.writeFile settles
WriteFileDone ==
  /\ fpc = "writing"
  /\ \E failed \in BOOLEAN :
       IF failed
         THEN Throw("EACCES") /\ UNCHANGED <<fileContent, fileLog>>
         ELSE /\ fileContent' = features
              /\ fileLog' = Append(fileLog, [op |-> "write", content |-> features])
              /\ foldResult' = [kind |-> "returned", value |-> features]
              /\ fpc' = "done"
  /\ UNCHANGED <<fparams, features, foldKind, foldText, foldChunks, fi, messages,
                 globalSummary, chatLog, gvars, dvars, wvars, rvars, tvars, avars, svars>>

InitFold ==
  FoldInit /\ GroupIdle /\ DiffIdle /\ WalkIdle /\ RetryIdle /\ StreamIdle /\ AnalyzeIdle
    /\ SessionIdle
NextFold ==
  \/ SummarizeFeaturesCall \/ UpdateDocCall \/ ConsolidateFeaturesCall
  \/ GenerateDocumentationCall \/ ReadFileDone \/ ChatReply \/ WriteFileDone
SpecFold == InitFold /\ [][NextFold]_vars

(***************************************************************************)
(* Analysis run: FeatureService.processDiffs (feature-service.js:30-61),   *)
(* analyzeGitDiff (part_001:81-114) and the catch of handleCommitCommand / *)
(* handleTagCommand (part_006:43-93)                                       *)
(*                                                                         *)
(* A query stands for the whole gateway call, retries included.            *)
(***************************************************************************)
\* what an analysis run leaves alone in the feature service and the folds
foldOnly == <<docOp, analyzerVariant, features, hasFilePath, fileContent, fileLog,
              foldKind, foldText, foldChunks, fi, messages, globalSummary, chatLog,
              foldResult, fpc>>

\* groupBySize(chunks, 2000, chunk => chunk.content.length)
ANALYZE_GROUP_SIZE == 2000

\* const chunks = [...splitDiffIntoFileChunks(diff.trim())]; const groups = ...
analyzeGroups(d) ==
  LET cs == splitDiffIntoFileChunks(trim(d))
      gs == groupBySize([k \in 1..Len(cs) |->
                           [id |-> cs[k], size |-> textLength(cs[k].content)]],
                        ANALYZE_GROUP_SIZE)
  IN [g \in 1..Len(gs) |-> [k \in 1..Len(gs[g]) |-> gs[g][k].id]]

\* group.map(chunk => chunk.content).join('\n')
groupDiff(group) == join([k \in 1..Len(group) |-> group[k].content], LF)

\* the features of a diff are put in front of the list
pushAllFront(all, fs) == fs \o all

\* this.allFeatures.push(...diffFeatures)
pushAll(all, fs) == all \o fs

\* processDiffs passes over a record without diff
Skipped(rec) == rec.diff = <<>> \/ Len(analyzeGroups(rec.diff)) = 0

\* the first record at or after index j that is analyzed
RECURSIVE NextAnalyzed(_)
NextAnalyzed(j) ==
  IF j > Len(diffRecords) THEN j
  ELSE IF Skipped(diffRecords[j]) THEN NextAnalyzed(j + 1) ELSE j

\* filtered diffs: one small section, two sections that fit into one group,
\* two sections that are each larger than a group
DiffTexts ==
  { <<>>,
    HeaderLine(PATH_GO, PATH_GO) \o LF \o <<"+", "x">>,
    HeaderLine(PATH_GO, PATH_GO) \o LF \o <<"+", "x">> \o LF
      \o HeaderLine(PATH_JS, PATH_JS) \o LF \o <<"+", "y">>,
    HeaderLine(PATH_GO, PATH_GO) \o LF \o <<HALF_TEXT>> \o LF
      \o HeaderLine(PATH_JS, PATH_JS) \o LF \o <<HALF_TEXT>> }

QueryOutcomes ==
  { [threw |-> TRUE, text |-> <<>>],
    [threw |-> FALSE, text |-> <<"p">>],
    [threw |-> FALSE, text |-> <<" ", "q", "\n">>] }

AnalyzeInit ==
  /\ runType \in {"commit", "tag"}
  /\ diffRecords \in {[k \in 1..Len(ts) |-> [from |-> k - 1, to |-> k, diff |-> ts[k]]] :
                        ts \in SeqsUpTo(DiffTexts, MaxDiffs)}
  /\ di = 0 /\ diffGroups = <<>> /\ gi = 0 /\ diffFeatures = <<>>
  /\ queryLog = <<>> /\ replyLog = <<>>
  /\ runResult = <<>>
  /\ apc = "start"
  \* the feature service as an earlier command left it
  /\ allFeatures \in {<<>>, << <<"o">> >>}
  /\ features = <<>>
  /\ docOp = "none" /\ analyzerVariant = "current"
  /\ hasFilePath = FALSE /\ fileContent = <<>> /\ fileLog = <<>>
  /\ foldKind = "none" /\ foldText = <<>> /\ foldChunks = <<>> /\ fi = 0
  /\ messages = <<>> /\ globalSummary = <<>> /\ chatLog = <<>>
  /\ foldResult = <<>> /\ fpc = "idle"

\* the loop of processDiffs from record j on, up to the first await query of
\* analyzeGitDiff or to the end of the run
EnterDiff(j) ==
  LET n == NextAnalyzed(j) IN
  IF n > Len(diffRecords)
    THEN /\ di' = Len(diffRecords)
         /\ diffGroups' = <<>> /\ gi' = 0 /\ diffFeatures' = <<>>
         /\ UNCHANGED queryLog
         /\ runResult' = [kind |-> "completed", noDifferences |-> Len(diffRecords) = 0]
         /\ apc' = "done"
    ELSE LET gs == analyzeGroups(diffRecords[n].diff) IN
         /\ di' = n
         /\ diffGroups' = gs /\ gi' = 0 /\ diffFeatures' = <<>>
         /\ queryLog' = Append(queryLog,
                               [diff |-> n, group |-> 1, prompt |-> groupDiff(gs[1])])
         /\ UNCHANGED runResult
         /\ apc' = "query"

\* processDiffs: this.allFeatures = [], then the loop
ProcessDiffsStart ==
  /\ apc = "start"
  /\ allFeatures' = <<>>
  /\ EnterDiff(1)
  /\ UNCHANGED <<runType, diffRecords, replyLog, foldOnly, gvars, dvars, wvars, rvars, tvars, svars>>

\* the awaited query settles: analyzeGitDiff goes on to its next group, or
\* returns and processDiffs goes on to the next record; a rejection leaves
\* analyzeGitDiff and processDiffs and is displayed by the command handler
QueryReply ==
  /\ apc = "query"
  /\ \E o \in QueryOutcomes :
       /\ replyLog' = Append(replyLog, o)
       /\ IF o.threw
            THEN /\ runResult' = [kind |-> "errorDisplayed", noDifferences |-> FALSE]
                 /\ apc' = "failed"
                 /\ UNCHANGED <<allFeatures, di, diffGroups, gi, diffFeatures, queryLog>>
            ELSE LET fs == Append(diffFeatures, trim(o.text)) IN
                 IF gi + 1 < Len(diffGroups)
                   THEN /\ diffFeatures' = fs
                        /\ gi' = gi + 1
                        /\ queryLog' = Append(queryLog,
                             [diff |-> di, group |-> gi + 2,
                              prompt |-> groupDiff(diffGroups[gi + 2])])
                        /\ UNCHANGED <<allFeatures, di, diffGroups, runResult, apc>>
                   ELSE /\ allFeatures' = pushAll(allFeatures, fs)
                        /\ EnterDiff(di + 1)
  /\ UNCHANGED <<runType, diffRecords, foldOnly, gvars, dvars, wvars, rvars, tvars, svars>>

InitAnalyze ==
  AnalyzeInit /\ GroupIdle /\ DiffIdle /\ WalkIdle /\ RetryIdle /\ StreamIdle
    /\ SessionIdle
NextAnalyze == ProcessDiffsStart \/ QueryReply
SpecAnalyze == InitAnalyze /\ [][NextAnalyze]_vars

(***************************************************************************)
(* Command loop: main, handleCommand and the command handlers              *)
(* (part_006:43-230), FeatureService.exportFeatures and reset              *)
(* (feature-service.js:86-115, 146-149)                                    *)
(*                                                                         *)
(* A repository is selected (state.repoPath is set) throughout.            *)
(***************************************************************************)
SP == <<" ">>
CMD_REPO == <<"/", "r", "e", "p", "o">>
CMD_COMMIT == <<"/", "c", "o", "m", "m", "i", "t">>
CMD_TAG == <<"/", "t", "a", "g">>
CMD_DOC == <<"/", "d", "o", "c">>
CMD_EXPORT == <<"/", "e", "x", "p", "o", "r", "t">>
CMD_EXIT == <<"/", "e", "x", "i", "t">>

\* Number.MAX_SAFE_INTEGER, cut down to the largest integer TLC can hold:
\* the walker only compares it with the number of commits
MAX_SAFE_INTEGER == 2147483647

\* the name of tag n as the repository spells it: the names of even number
\* start with a capital letter
tagText(n) == <<IF n % 2 = 0 THEN "V" ELSE "v", ToString(n)>>

\* the tag whose name is spelt text, 0 when no tag is spelt so
tagNamed(text) ==
  IF \E n \in 1..(MaxTags + 1) : tagText(n) = text
    THEN CHOOSE n \in 1..(MaxTags + 1) : tagText(n) = text
    ELSE 0

DIGITS == <<"0", "1", "2", "3", "4", "5", "6", "7", "8", "9">>
IsDigit(c) == \E k \in 1..10 : DIGITS[k] = c
digitValue(c) == (CHOOSE k \in 1..10 : DIGITS[k] = c) - 1

\* parseInt(s) of a text without sign: the value of its leading digits
RECURSIVE leadingDigits(_, _)
leadingDigits(s, acc) ==
  IF s # <<>> /\ IsDigit(s[1])
    THEN leadingDigits(Tail(s), acc * 10 + digitValue(s[1]))
    ELSE acc
parseInt(s) ==
  LET t == trimStart(s) IN
  [isNaN |-> ~(t # <<>> /\ IsDigit(t[1])), value |-> leadingDigits(t, 0)]

\* the lines typed at the prompt of a session of tag analyses
TagCommandLines ==
  {<<>>, CMD_TAG, <<"/", "x">>}
    \cup {CMD_TAG \o SP \o tagText(n) : n \in 1..(MaxTags + 1)}

\* the lines typed at the prompt of a session that analyzes, documents and
\* exports
SessionCommandLines ==
  { CMD_REPO \o SP \o <<"p">>, CMD_COMMIT, CMD_COMMIT \o SP \o <<"0">>,
    CMD_COMMIT \o SP \o <<"2">>, CMD_TAG,
    CMD_DOC, CMD_DOC \o SP \o <<"f">>, CMD_EXPORT }

\* what getCommitDiffs / getTagDiffs resolve to in such a session
SessionDiffs ==
  {[k \in 1..Len(ts) |-> [from |-> k - 1, to |-> k, diff |-> ts[k]]] :
     ts \in SeqsUpTo({HeaderLine(PATH_GO, PATH_GO) \o LF \o <<"+", "x">>},
                     MaxDiffs - 1)}

\* featureService.hasFeatures()
hasFeatures == Len(features) > 0 \/ Len(allFeatures) > 0

\* const cmd = await promptForInput('> '); if (cmd) await handleCommand(cmd)
PromptForInput(lines) ==
  /\ spc = "prompt" /\ nRead < MaxCommands
  /\ \E line \in lines :
       /\ cmd' = trim(line)
       /\ spc' = IF trim(line) # <<>> THEN "dispatch" ELSE "prompt"
  /\ nRead' = nRead + 1
  /\ UNCHANGED <<exportLog, gvars, dvars, wvars, rvars, tvars, fvars, avars>>

\* getCommitDiffs / getTagDiffs is called
StartWalk(mode, size, from) ==
  /\ walkMode' = mode /\ groupSize' = size /\ fromTag' = from
  /\ sortedTags' = <<>> /\ wi' = 0 /\ lastProcessedIndex' = 0
  /\ diffs' = <<>> /\ gitDiffLog' = <<>> /\ walkResult' = <<>>
  /\ wpc' = "start"
  /\ spc' = "walking"
  /\ UNCHANGED <<walkType, commitList, tagsAll, fvars>>

\* featureService.generateDocumentation(state.repoPath, filePath) is called
StartDoc(filePath) ==
  /\ docOp' = "generateDocumentation" /\ hasFilePath' = (filePath # <<>>)
  /\ fileLog' = <<>> /\ chatLog' = <<>> /\ foldResult' = <<>>
  /\ fpc' = "start"
  /\ spc' = "documenting"
  /\ UNCHANGED <<analyzerVariant, allFeatures, features, fileContent, foldKind,
                 foldText, foldChunks, fi, messages, globalSummary, wvars>>

\* the handler returns without a call that is awaited
Warned == spc' = "prompt" /\ UNCHANGED <<wvars, fvars>>

\* handleCommand(cmd) and the handler it selects, up to the first call that
\* is awaited
HandleCommand ==
  /\ spc = "dispatch"
  /\ LET parts == split(toLowerCase(cmd), SP)
         command == parts[1]
         args == Tail(parts)
     IN IF command = CMD_REPO
          THEN IF trim(join(args, SP)) # <<>>
                 THEN spc' = "analyzingRepo" /\ UNCHANGED <<wvars, fvars>>
                 ELSE Warned
        ELSE IF command = CMD_COMMIT
          THEN LET size == IF Len(args) > 0 THEN parseInt(args[1])
                           ELSE [isNaN |-> FALSE, value |-> MAX_SAFE_INTEGER]
               IN IF size.isNaN \/ size.value <= 0
                    THEN Warned
                    ELSE StartWalk("commit", size.value, NULL)
        ELSE IF command = CMD_TAG
          THEN StartWalk("tag", groupSize,
                         IF Len(args) > 0 /\ args[1] # <<>>
                           THEN <<tagNamed(args[1])>> ELSE NULL)
        ELSE IF command = CMD_DOC
          THEN IF hasFeatures THEN StartDoc(trim(join(args, SP))) ELSE Warned
        ELSE IF command = CMD_EXPORT
          THEN IF hasFeatures
                 THEN spc' = "exporting" /\ UNCHANGED <<wvars, fvars>>
                 ELSE Warned
        ELSE IF command = CMD_EXIT
          THEN spc' = "exited" /\ UNCHANGED <<wvars, fvars>>
        ELSE Warned
  /\ UNCHANGED <<cmd, nRead, exportLog, gvars, dvars, rvars, tvars, avars>>

\* await repoService.analyzeRepository(newPath); featureService.reset()
RepositoryAnalyzed ==
  /\ spc = "analyzingRepo"
  /\ \E failed \in BOOLEAN :
       IF failed THEN UNCHANGED <<features, allFeatures>>
       ELSE features' = <<>> /\ allFeatures' = <<>>
  /\ spc' = "prompt"
  /\ UNCHANGED <<cmd, nRead, exportLog, docOp, analyzerVariant, hasFilePath, fileContent,
                 fileLog, foldKind, foldText, foldChunks, fi, messages, globalSummary,
                 chatLog, foldResult, fpc, gvars, dvars, wvars, rvars, tvars, avars>>

\* the walk of the history settles as a whole: it resolves to the records of
\* its comparisons or it is rejected
GetDiffsSettles ==
  /\ spc = "walking" /\ wpc = "start"
  /\ \E ds \in SessionDiffs, failed \in BOOLEAN :
       IF failed
         THEN Reject([message |-> "git diff failed", tag |-> 0]) /\ UNCHANGED diffs
         ELSE diffs' = ds /\ Return(ds)
  /\ UNCHANGED <<wparams, sortedTags, wi, lastProcessedIndex, gitDiffLog, svars,
                 gvars, dvars, rvars, tvars, fvars, avars>>

\* await featureService.processDiffs(diffs, type) is called with the records
\* the walk returned
DiffsReturned ==
  /\ spc = "walking" /\ wpc = "done"
  /\ runType' = walkMode /\ diffRecords' = walkResult.diffs
  /\ di' = 0 /\ diffGroups' = <<>> /\ gi' = 0 /\ diffFeatures' = <<>>
  /\ queryLog' = <<>> /\ replyLog' = <<>> /\ runResult' = <<>>
  /\ apc' = "start"
  /\ spc' = "processing"
  /\ UNCHANGED <<cmd, nRead, exportLog, gvars, dvars, wvars, rvars, tvars, fvars>>

\* await fs.writeFile(exportFile, exportContent): the two sections written
ExportWritten ==
  /\ spc = "exporting"
  /\ \E failed \in BOOLEAN :
       exportLog' = IF failed THEN exportLog
                    ELSE Append(exportLog, [individual |-> allFeatures,
                                            consolidated |-> features])
  /\ spc' = "prompt"
  /\ UNCHANGED <<cmd, nRead, gvars, dvars, wvars, rvars, tvars, fvars, avars>>

\* the handler returns although the call it awaits has not settled
CommandDoneEarly ==
  /\ \/ spc = "walking" /\ wpc = "reported"
     \/ spc = "processing"
     \/ spc = "documenting"
  /\ spc' = "prompt"
  /\ UNCHANGED <<cmd, nRead, exportLog, gvars, dvars, wvars, rvars, tvars, fvars, avars>>

\* the handler returns, or its catch has displayed the error: back to the
\* prompt; the locals of the handler and of the calls it made are gone, of
\* the last fold its kind, its text and its chunks are kept on record
CommandDone ==
  /\ \/ spc = "walking" /\ wpc = "reported"
     \/ spc = "processing" /\ apc \in {"done", "failed"}
     \/ spc = "documenting" /\ fpc \in {"done", "failed"}
  /\ spc' = "prompt"
  /\ walkMode' = "none" /\ groupSize' = 1 /\ fromTag' = NULL
  /\ sortedTags' = <<>> /\ wi' = 0 /\ lastProcessedIndex' = 0
  /\ diffs' = <<>> /\ gitDiffLog' = <<>> /\ walkResult' = <<>> /\ wpc' = "idle"
  /\ runType' = "none" /\ diffRecords' = <<>> /\ di' = 0
  /\ diffGroups' = <<>> /\ gi' = 0 /\ diffFeatures' = <<>>
  /\ queryLog' = <<>> /\ replyLog' = <<>> /\ runResult' = <<>> /\ apc' = "idle"
  /\ docOp' = "none" /\ hasFilePath' = FALSE /\ fileLog' = <<>> /\ fi' = 0
  /\ messages' = <<>> /\ globalSummary' = <<>> /\ chatLog' = <<>>
  /\ foldResult' = <<>> /\ fpc' = "idle"
  /\ UNCHANGED <<cmd, nRead, exportLog, walkType, commitList, tagsAll,
                 analyzerVariant, allFeatures, features, fileContent, foldKind,
                 foldText, foldChunks, gvars, dvars, rvars, tvars>>

\* a session in which one more line is read: a tag analysis on a repository
\* with the tags of tagsAll
CommandInit ==
  /\ cmd = <<>> /\ spc = "prompt" /\ nRead = MaxCommands - 1 /\ exportLog = <<>>
  /\ walkMode = "none" /\ walkType \in WalkTypes /\ commitList = <<>>
  /\ groupSize = 1 /\ tagsAll \in TagLists /\ fromTag = NULL /\ sortedTags = <<>>
  /\ wi = 0 /\ lastProcessedIndex = 0 /\ diffs = <<>> /\ gitDiffLog = <<>>
  /\ walkResult = <<>> /\ wpc = "idle"

InitCommand ==
  CommandInit /\ GroupIdle /\ DiffIdle /\ RetryIdle /\ StreamIdle /\ FoldIdle
    /\ AnalyzeIdle
NextCommand ==
  \/ PromptForInput(TagCommandLines) \/ HandleCommand
  \/ GetTagDiffsStart \/ TagNoTags \/ TagFirst \/ TagPairStep \/ TagHead
  \/ ReportWalkError \/ DiffsReturned \/ ProcessDiffsStart \/ QueryReply
  \/ CommandDone
SpecCommand == InitCommand /\ [][NextCommand]_vars

\* a session from its first prompt on; the walks of the history are taken
\* as a whole
SessionInit ==
  /\ cmd = <<>> /\ spc = "prompt" /\ nRead = 0 /\ exportLog = <<>>

InitSession ==
  SessionInit /\ GroupIdle /\ DiffIdle /\ WalkIdle /\ RetryIdle /\ StreamIdle
    /\ FoldIdle /\ AnalyzeIdle
NextSession ==
  \/ PromptForInput(SessionCommandLines) \/ HandleCommand \/ RepositoryAnalyzed
  \/ GetDiffsSettles \/ ReportWalkError \/ DiffsReturned
  \/ ProcessDiffsStart \/ QueryReply
  \/ GenerateDocumentationCall \/ ReadFileDone \/ ChatReply \/ WriteFileDone
  \/ ExportWritten \/ CommandDone
SpecSession == InitSession /\ [][NextSession]_vars

(***************************************************************************)
(* C1: flattening the groups gives back the input sequence                 *)
(***************************************************************************)
\* C1: for maxSize > 0, the concatenation of the groups of groupBySize, in
\* output order, is exactly the input sequence (same items, same order).
C1_GroupsPartitionInput ==
  (gpc = "done" /\ maxSize > 0) => Flatten(groups) = items

\* a run that produced several groups, one of them with several items
C1_Witness ==
  /\ gpc = "done" /\ maxSize > 0
  /\ Len(groups) >= 3
  /\ \E k \in 1..Len(groups) : Len(groups[k]) >= 2

\* C2: every group has combined size at most maxSize unless it is a singleton
\* whose item alone exceeds maxSize; an oversize item is always alone.
C2_GroupSizeBound ==
  gpc = "done" =>
    \A k \in 1..Len(groups) :
      /\ SumSize(groups[k]) <= maxSize
           \/ (Len(groups[k]) = 1 /\ getSize(groups[k][1]) > maxSize)
      /\ (\E j \in 1..Len(groups[k]) : getSize(groups[k][j]) > maxSize)
           => Len(groups[k]) = 1

\* a run with an oversize singleton and a full multi-item group
C2_Witness ==
  /\ gpc = "done"
  /\ \E k \in 1..Len(groups) : Len(groups[k]) = 1 /\ getSize(groups[k][1]) > maxSize
  /\ \E k \in 1..Len(groups) : Len(groups[k]) >= 2 /\ SumSize(groups[k]) = maxSize

(***************************************************************************)
(* C3, C4: the segmenter and the filter                                    *)
(***************************************************************************)
\* the lines of d that begin with 'diff --git'
MarkerLines(d) == SelectSeq(split(d, LF), LAMBDA l : startsWith(l, DIFF_GIT))

\* the chunks that are file sections: their content begins with the marker
FileSections(chunks) == SelectSeq(chunks, LAMBDA c : startsWith(c.content, DIFF_GIT))

Contents(chunks) == [i \in 1..Len(chunks) |-> chunks[i].content]

\* text = w0 c1 w1 ... ck wk where every w is whitespace only
RECURSIVE RebuildsUpToTrim(_, _)
RebuildsUpToTrim(text, contents) ==
  LET t == trimStart(text) IN
  IF contents = <<>> THEN t = <<>>
  ELSE /\ startsWith(t, Head(contents))
       /\ RebuildsUpToTrim(SubSeq(t, Len(Head(contents)) + 1, Len(t)), Tail(contents))

\* C3: for a diff text with at least one line beginning with 'diff --git',
\* the segment contents, in order, rebuild the text up to the whitespace
\* trimmed at segment boundaries, and the k-th file section is the section
\* of the k-th marker line.
C3_SegmentsRebuildDiff ==
  ("split" \notin dpc /\ MarkerLines(diff) # <<>>) =>
    /\ RebuildsUpToTrim(diff, Contents(segments))
    /\ LET secs == FileSections(segments) IN
       /\ Len(secs) = Len(MarkerLines(diff))
       /\ \A k \in 1..Len(secs) :
            trim(split(secs[k].content, LF)[1]) = trim(MarkerLines(diff)[k])

\* a diff of two file sections, the first with a content line
C3_Witness ==
  /\ "split" \notin dpc
  /\ Len(MarkerLines(diff)) = 2
  /\ Len(segments) = 2
  /\ Len(split(segments[1].content, LF)) = 2

\* the path of a file section: the <path> of its header 'diff --git a/<path> b/'
SectionPath(content) ==
  LET h == split(content, LF)[1]
      pre == DIFF_GIT \o <<" ","a","/">>
      parts == split(h, SP_B_SLASH)
  IN IF startsWith(h, pre) /\ Len(parts) >= 2 /\ Len(parts[1]) > Len(pre)
       THEN SubSeq(parts[1], Len(pre) + 1, Len(parts[1]))
       ELSE NO_MATCH

\* the file sections of d whose path has an allowed extension, in order
AllowedSections(d, type) ==
  SelectSeq(Contents(FileSections(splitDiffIntoFileChunks(d))),
            LAMBDA c : SectionPath(c) # NO_MATCH /\ isSourceFile(SectionPath(c), type))

\* C4: the file sections of the output of filterSourceFiles are exactly the
\* file sections of the input whose path has an extension in the allow-list
\* of the project type, in their input order, and the output is the empty
\* string exactly when no section is kept.
C4_FilterKeepsAllowedSections ==
  "filter" \notin dpc =>
    /\ Contents(FileSections(splitDiffIntoFileChunks(filtered)))
         = AllowedSections(diff, projectType)
    /\ (filtered = <<>>) <=> (AllowedSections(diff, projectType) = <<>>)

(***************************************************************************)
(* C5-C8: the comparisons of the history walker                            *)
(***************************************************************************)
\* the pairs handed to git.diff, in call order
Pairs(log) == [k \in 1..Len(log) |-> <<log[k].from, log[k].to>>]

NoFailingDiff == \A k \in 1..Len(gitDiffLog) : ~gitDiffLog[k].threw

Total == Len(commitList)

\* the pairs (commit[(j-1)n], commit[jn]) for j = a..b
GroupPairs(n, a, b) ==
  [k \in 1..(b - a + 1) |-> <<Commit((a + k - 2) * n), Commit((a + k - 1) * n)>>]

\* the trailing pair, when index last is not the index of the last commit
TrailingPair(last) ==
  IF last # Total - 1 THEN << <<Commit(last), Commit(Total - 1)>> >> ELSE <<>>

\* the comparisons as C5 states them: (emptyTree, commit[0]), then
\* (commit[i-n], commit[i]) for i = n, 2n, ... < total, then the trailing pair
PairsFromCommitZero(n) ==
  LET m == (Total - 1) \div n IN
  << <<EMPTY_TREE_HASH, Commit(0)>> >> \o GroupPairs(n, 1, m) \o TrailingPair(m * n)

\* the comparisons for n >= 2: (emptyTree, commit[n]), then
\* (commit[i-n], commit[i]) for i = 2n, 3n, ... < total, then the trailing pair
PairsFromCommitN(n) ==
  LET m == (Total - 1) \div n IN
  << <<EMPTY_TREE_HASH, Commit(n)>> >> \o GroupPairs(n, 2, m) \o TrailingPair(m * n)

CommitWalkDone ==
  wpc = "done" /\ walkMode = "commit" /\ Total >= groupSize + 1 /\ NoFailingDiff

TagByDate(j) == Tag((CHOOSE k \in 1..Len(tagsAll) : tagsAll[k].date = j))

TagNames == {tagsAll[k].name : k \in 1..Len(tagsAll)}

\* the pairs (t(j), t(j+1)) for j = s..k-1, then (tk, HEAD)
TagPairsFrom(s) ==
  LET k == Len(tagsAll) IN
  [j \in 1..(k - s) |-> <<TagByDate(s + j - 1), TagByDate(s + j)>>]
    \o << <<TagByDate(k), HEAD>> >>

\* the comparisons of tag mode for the given starting tag
ExpectedTagPairs ==
  IF fromTag = NULL
    THEN IF Len(tagsAll) = 0
           THEN << <<EMPTY_TREE_HASH, HEAD>> >>
           ELSE << <<EMPTY_TREE_HASH, TagByDate(1)>> >> \o TagPairsFrom(1)
    ELSE TagPairsFrom(tagsAll[CHOOSE k \in 1..Len(tagsAll) :
                                tagsAll[k].name = fromTag[1]].date)

\* C6: in tag mode without a failing diff the comparisons are (emptyTree,
\* HEAD) alone for no tags and no starting tag; (emptyTree, t1), (t1, t2),
\* ..., (tk, HEAD) for no starting tag; (ts, t(s+1)), ..., (tk, HEAD) for an
\* existing starting tag ts; the tags taken in creation-date order.
C6_TagPairs ==
  (wpc = "done" /\ walkMode = "tag" /\ NoFailingDiff
     /\ (fromTag = NULL \/ fromTag[1] \in TagNames))
    => Pairs(gitDiffLog) = ExpectedTagPairs

\* three tags that git lists out of date order, all compared from emptyTree
C6_Witness ==
  /\ wpc = "done" /\ walkMode = "tag" /\ NoFailingDiff
  /\ fromTag = NULL /\ Len(tagsAll) = 3 /\ tagsAll # sortedTags
  /\ Len(gitDiffLog) = 4

\* C7: a starting tag that is not among the tags makes getTagDiffs fail with
\* a not-found error naming that tag, and no git diff is issued at any time.
C7_UnknownTagNoDiff ==
  (walkMode = "tag" /\ fromTag # NULL /\ fromTag[1] \notin TagNames) =>
    /\ gitDiffLog = <<>>
    /\ wpc \in {"start", "failed", "reported"}
    /\ wpc = "failed" =>
         /\ walkResult.kind = "rejected"
         /\ walkResult.error = [message |-> "not found", tag |-> fromTag[1]]
    /\ wpc = "reported" =>
         /\ walkResult.kind = "tagNotFound"
         /\ walkResult.tag = fromTag[1]

\* the not-found error has been reported for a repository that has tags
C7_Witness ==
  /\ walkMode = "tag" /\ fromTag # NULL /\ fromTag[1] \notin TagNames
  /\ Len(tagsAll) >= 2
  /\ wpc = "reported"

\* the comparisons of the whole walk for the given parameters
ExpectedPairs ==
  IF walkMode = "tag" THEN ExpectedTagPairs
  ELSE IF Total = 0 THEN <<>>
  ELSE IF groupSize = 1 THEN PairsFromCommitZero(1)
  ELSE IF groupSize >= Total THEN << <<EMPTY_TREE_HASH, Commit(Total - 1)>> >>
  ELSE PairsFromCommitN(groupSize)

\* the records of the comparisons that did not fail and touch source files
RECURSIVE RecordsOf(_)
RecordsOf(log) ==
  IF log = <<>> THEN <<>>
  ELSE LET e == log[Len(log)]
           rest == RecordsOf(SubSeq(log, 1, Len(log) - 1))
       IN IF ~e.threw /\ filterSourceFiles(e.text, walkType) # <<>>
            THEN Append(rest, DiffRecord(e.from, e.to, filterSourceFiles(e.text, walkType)))
            ELSE rest

WalkOver == wpc \in {"done", "failed", "reported"}

\* C8: in commit mode and in tag mode a failing git diff only skips its
\* pair: every later comparison is still performed and the records of the
\* other pairs are returned.
C8_FailingPairIsSkipped ==
  (WalkOver /\ (fromTag = NULL \/ fromTag[1] \in TagNames)) =>
    /\ Pairs(gitDiffLog) = ExpectedPairs
    /\ walkResult.kind = "returned"
    /\ walkResult.diffs = RecordsOf(gitDiffLog)

RECURSIVE ResponsesOf(_)
ResponsesOf(lines) ==
  IF lines = <<>> THEN <<>>
  ELSE LET parsed == JSONparse(Head(lines)) IN
       (IF parsed.ok /\ parsed.response # ABSENT THEN parsed.response ELSE <<>>)
         \o ResponsesOf(Tail(lines))

\* C10: in query mode the text returned is the concatenation, in arrival
\* order, of the response payloads of all well-formed fragments of the
\* stream; malformed fragments are skipped and lose nothing else.  The
\* earlier variant loses the fragments that follow a malformed one in a
\* buffer of more than BUFFER_LIMIT characters.
C10_QueryConcatenatesWellFormed ==
  (tpc = "returned" /\ ~isChat) => fullText = ResponsesOf(split(stream, LF))

(***************************************************************************)
(* C11: what chat mode returns                                             *)
(***************************************************************************)
\* the contents of the well-formed chat fragments not flagged done
RECURSIVE ContentsNotDone(_)
ContentsNotDone(lines) ==
  IF lines = <<>> THEN <<>>
  ELSE LET parsed == JSONparse(Head(lines)) IN
       (IF parsed.ok /\ parsed.content # ABSENT /\ parsed.content # <<>> /\ ~parsed.done
          THEN <<parsed.content>> ELSE <<>>)
         \o ContentsNotDone(Tail(lines))

C17_NoMarkerNoSegments ==
  ("split" \notin dpc /\ MarkerLines(diff) = <<>>) => segments = <<>>

(***************************************************************************)
(* C18: fewer than n+1 commits                                             *)
(***************************************************************************)
\* C18: in commit mode with group size n >= 1 and at least one but fewer
\* than n+1 commits, exactly one comparison is performed, and it compares
\* the empty tree with the newest commit.
C18_FewCommitsCompareHeadOnly ==
  (walkMode = "commit" /\ wpc = "done" /\ Total >= 1 /\ Total < groupSize + 1) =>
    Pairs(gitDiffLog) = << <<EMPTY_TREE_HASH, Commit(Total - 1)>> >>

\* exactly n commits with n = 3: the only comparison is (emptyTree, c2)
C18_Witness ==
  /\ walkMode = "commit" /\ wpc = "done"
  /\ groupSize = 3 /\ Total = 3
  /\ Pairs(gitDiffLog) = << <<EMPTY_TREE_HASH, Commit(2)>> >>

(***************************************************************************)
(* C19: a history without commits                                          *)
(***************************************************************************)
NoCommitsWalkDone ==
  walkMode = "commit" /\ groupSize = 1 /\ Total = 0 /\ wpc = "done"

RECURSIVE FilterBoundaries(_, _)
FilterBoundaries(d, offset) ==
  LET k == indexOf(d, DIFF_GIT) IN
  IF k = 0 THEN {}
  ELSE {offset + k}
         \cup FilterBoundaries(SubSeq(d, k + Len(DIFF_GIT), Len(d)),
                               offset + k + Len(DIFF_GIT) - 1)

\* the positions where splitDiffIntoFileChunks starts a file section: the
\* first character of every line that begins with 'diff --git'
RECURSIVE SegmenterBoundaries(_, _)
SegmenterBoundaries(lines, offset) ==
  IF lines = <<>> THEN {}
  ELSE (IF startsWith(Head(lines), DIFF_GIT) THEN {offset + 1} ELSE {})
         \cup SegmenterBoundaries(Tail(lines), offset + Len(Head(lines)) + 1)

\* C20: for every diff text the filter and the segmenter place the section
\* boundaries at the same positions, the lines that begin with 'diff --git'.
\* The filter also splits at a 'diff --git' in the middle of a line.
C20_SameBoundaries ==
  dpc = {} => FilterBoundaries(diff, 0) = SegmenterBoundaries(split(diff, LF), 0)

(***************************************************************************)
(* C12, C13: folds without features                                        *)
(***************************************************************************)
AllBlank(feats) == \A k \in 1..Len(feats) : trim(feats[k]) = <<>>

\* C12: summarizeFeatures called with an empty list, or with a list whose
\* entries are all empty or whitespace-only, returns the sentinel text
\* 'No features to summarize' and issues no chat call.
C12_SummarizeNothingGivesSentinel ==
  (docOp = "summarizeFeatures" /\ AllBlank(allFeatures)) =>
    /\ chatLog = <<>>
    /\ fpc \in {"start", "done"}
    /\ fpc = "done" => foldResult = [kind |-> "returned", value |-> SENTINEL]

\* summarize(["", " "]) has returned the sentinel
C12_Witness ==
  /\ docOp = "summarizeFeatures" /\ allFeatures = << <<>>, <<" ">> >>
  /\ fpc = "done" /\ foldResult.value = SENTINEL /\ chatLog = <<>>

\* C13: updateDoc(text, features) with features empty or all blank returns
\* exactly text, character for character, and issues no chat call.
C13_UpdateDocNothingReturnsText ==
  (docOp = "updateDoc" /\ AllBlank(allFeatures)) =>
    /\ chatLog = <<>>
    /\ fpc \in {"start", "done"}
    /\ fpc = "done" => foldResult = [kind |-> "returned", value |-> foldText]

\* a document with blanks at both ends comes back untrimmed
C13_Witness ==
  /\ docOp = "updateDoc" /\ allFeatures = << <<" ">> >>
  /\ foldText = <<" ", "d", "\n">>
  /\ fpc = "done" /\ foldResult.value = <<" ", "d", "\n">>

(***************************************************************************)
(* C16: a failing fold leaves the consolidated text alone                  *)
(***************************************************************************)
\* C16: the session's consolidated text changes only in the step in which
\* the whole fold has completed, one reply per chunk; a fold that fails at
\* one of its chat calls therefore leaves the value it had before the
\* operation started.
C16_ConsolidatedAssignedAfterFold ==
  [][features' # features =>
       /\ docOp \in {"consolidateFeatures", "generateDocumentation"}
       /\ fpc' \in {"done", "writing"}
       /\ fi' = Len(foldChunks')
       /\ Len(chatLog') = Len(foldChunks')
       /\ features' = IF Len(foldChunks') = 0
                        THEN noFeaturesResult(foldKind', foldText')
                        ELSE trim(globalSummary')]_vars

\* consolidateFeatures failed at its second chat call: the old text is kept
C16_Witness ==
  /\ docOp = "consolidateFeatures" /\ fpc = "failed"
  /\ Len(chatLog) = 2
  /\ features = <<"o">>

(***************************************************************************)
(* C14, C15: the analysis run                                              *)
(***************************************************************************)
\* the records that carry a diff; the walker never returns one without
Analyzed(recs) == SelectSeq(recs, LAMBDA r : ~Skipped(r))

\* the prompts of analyzeGitDiff for the records, in record and group order
RECURSIVE PromptsOf(_)
PromptsOf(recs) ==
  IF recs = <<>> THEN <<>>
  ELSE LET gs == analyzeGroups(Head(recs).diff) IN
       [g \in 1..Len(gs) |-> groupDiff(gs[g])] \o PromptsOf(Tail(recs))

\* C14: analyzeGitDiff issues exactly one query per group and returns one
\* feature description per group in group order; after a run over the diff
\* records d1..dm the accumulated feature list is the concatenation of the
\* results for d1, ..., dm in record order.
C14_FeaturesInRecordAndGroupOrder ==
  apc = "done" =>
    /\ [k \in 1..Len(queryLog) |-> queryLog[k].prompt] = PromptsOf(Analyzed(diffRecords))
    /\ Len(replyLog) = Len(queryLog)
    /\ allFeatures = [k \in 1..Len(replyLog) |-> trim(replyLog[k].text)]

\* a run over a record of two groups and a record of one group, with
\* different replies
C14_Witness ==
  /\ apc = "done"
  /\ Len(diffRecords) = 2
  /\ Len(analyzeGroups(diffRecords[1].diff)) = 2
  /\ allFeatures = << <<"p">>, <<"q">>, <<"p">> >>

\* C15: when the model call for one diff fails, that diff is skipped and
\* every remaining diff is still analyzed and its features are added; one
\* failing diff does not abort the run.  processDiffs has no catch around
\* analyzeGitDiff, so the first failure ends the run.
C15_FailingDiffIsSkipped ==
  apc \in {"done", "failed"} =>
    \A j \in 1..Len(diffRecords) :
      ~Skipped(diffRecords[j]) => \E k \in 1..Len(queryLog) : queryLog[k].diff = j

(***************************************************************************)
(* C21: the document file of /doc <file>                                   *)
(***************************************************************************)
CountOp(log, op) == Cardinality({k \in 1..Len(log) : log[k].op = op})

\* C21: for /doc <file> the document file is read once, before the first
\* chat call, and written at most once, only after the last fold step has
\* succeeded; when a fold step fails the file is not written and its
\* content on disk is the content that was read.
C21_DocFileReadOnceWrittenLast ==
  (docOp = "generateDocumentation" /\ hasFilePath) =>
    /\ CountOp(fileLog, "read") <= 1
    /\ CountOp(fileLog, "write") <= 1
    /\ chatLog # <<>> => (fileLog # <<>> /\ fileLog[1].op = "read")
    /\ \A k \in 1..Len(fileLog) :
         fileLog[k].op = "write" =>
           /\ k = 2 /\ fpc = "done"
           /\ fi = Len(foldChunks) /\ Len(chatLog) = Len(foldChunks)
           /\ fileLog[k].content = features /\ fileContent = features
    /\ (fpc = "failed" /\ foldResult.value = "chat failed") =>
         /\ CountOp(fileLog, "write") = 0
         /\ fileContent = fileLog[1].content

\* an existing document whose second fold step failed: read, never written
C21_Witness ==
  /\ docOp = "generateDocumentation" /\ hasFilePath
  /\ fpc = "failed" /\ foldResult.value = "chat failed"
  /\ Len(chatLog) = 2
  /\ fileLog = << [op |-> "read", content |-> <<" ", "d", "\n">>] >>
  /\ fileContent = <<" ", "d", "\n">>

(***************************************************************************)
(* C22: /tag T starts the tag analysis from T                              *)
(***************************************************************************)
\* the line read is '/tag T' for the tag n of the repository
TypedTag(n) == n \in TagNames /\ cmd = CMD_TAG \o SP \o tagText(n)

\* C22: for every tag name T that exists in the repository, the command
\* /tag T does not end in a tag-not-found outcome, and the first comparison
\* performed has T as its from side.
C22_TagCommandStartsFromTag ==
  \A n \in 1..MaxTags :
    (TypedTag(n) /\ spc \in {"walking", "processing"}) =>
      /\ ~(wpc \in {"failed", "reported"} /\ walkResult.kind = "tagNotFound")
      /\ ~(wpc = "failed" /\ walkResult.error.message = "not found")
      /\ gitDiffLog # <<>> => gitDiffLog[1].from = Tag(n)

\* the same for the tag names without a capital letter
C22_LowerCaseTagStartsFromTag ==
  \A n \in 1..MaxTags :
    (TypedTag(n) /\ toLowerCase(tagText(n)) = tagText(n)
       /\ spc \in {"walking", "processing"}) =>
      /\ ~(wpc \in {"failed", "reported"} /\ walkResult.kind = "tagNotFound")
      /\ ~(wpc = "failed" /\ walkResult.error.message = "not found")
      /\ gitDiffLog # <<>> => gitDiffLog[1].from = Tag(n)

(***************************************************************************)
(* C23: a new group is started only when forced                            *)
(***************************************************************************)
\* C23: for any two consecutive output groups A then B, either A is a
\* singleton whose item exceeds maxSize, or the first item of B exceeds
\* maxSize, or size(A) + sizeOf(first item of B) > maxSize.
C23_NewGroupOnlyWhenForced ==
  gpc = "done" =>
    \A k \in 1..(Len(groups) - 1) :
      LET A == groups[k]
          B == groups[k + 1]
      IN /\ B # <<>>
         /\ \/ Len(A) = 1 /\ getSize(A[1]) > maxSize
            \/ getSize(B[1]) > maxSize
            \/ SumSize(A) + getSize(B[1]) > maxSize

\* a group of several items is followed by a group whose first item would
\* have fitted alone but not on top of the group before it
C23_Witness ==
  /\ gpc = "done"
  /\ \E k \in 1..(Len(groups) - 1) :
       /\ Len(groups[k]) >= 2
       /\ getSize(groups[k + 1][1]) <= maxSize
       /\ getSize(groups[k + 1][1]) > 0
       /\ SumSize(groups[k]) + getSize(groups[k + 1][1]) > maxSize

(***************************************************************************)
(* C29: no group is empty                                                  *)
(***************************************************************************)
\* C29: for every input sequence, every maxSize >= 0 and non-negative sizes,
\* no group emitted by groupBySize is empty.
C29_NoEmptyGroup ==
  gpc = "done" => \A k \in 1..Len(groups) : groups[k] # <<>>

\* an oversize item arrives while the current group is empty, at the start
\* and right after another oversize item
C29_Witness ==
  /\ gpc = "done"
  /\ Len(items) >= 2
  /\ getSize(items[1]) > maxSize /\ getSize(items[2]) > maxSize
  /\ Len(groups) = Len(items)

(***************************************************************************)
(* C24: a fold over k chunks is k chat calls in chunk order                *)
(***************************************************************************)
\* the user turn that a chat request ends with
PromptOf(req) == req[Len(req)]

\* C24: a fold over k >= 1 chunks issues exactly k chat calls, one per chunk
\* in chunk order, each only after the previous reply was received; after
\* step i the running summary is exactly the reply of step i, the prompt of
\* every step i > 1 embeds the running summary of step i-1, and the result
\* is the trimmed reply of step k.
C24_FoldStepsInOrder ==
  foldChunks # <<>> =>
    LET k == Len(foldChunks)
        chatFailed == fpc = "failed" /\ foldResult.value = "chat failed"
    IN /\ Len(chatLog) <= k
       /\ Len(chatLog) = IF fpc = "chat" \/ chatFailed THEN fi + 1 ELSE fi
       /\ fpc \in {"writing", "done"} => Len(chatLog) = k
       /\ \A i \in 1..Len(chatLog) :
            /\ PromptOf(chatLog[i]).role = "user"
            /\ PromptOf(chatLog[i]).chunk = join(foldChunks[i], LF)
            /\ i > 1 =>
                 /\ chatLog[i][Len(chatLog[i]) - 1].role = "assistant"
                 /\ PromptOf(chatLog[i]).embedded =
                      chatLog[i][Len(chatLog[i]) - 1].text
       /\ fi >= 1 =>
            /\ globalSummary = messages[3].text
            /\ fi < Len(chatLog) => PromptOf(chatLog[fi + 1]).embedded = globalSummary
       /\ fpc = "done" =>
            /\ foldResult.value = trim(globalSummary)
            /\ docOp \in {"consolidateFeatures", "generateDocumentation"} =>
                 features = trim(globalSummary)

\* a fold over three chunks has returned; its last reply had to be trimmed
C24_Witness ==
  /\ fpc = "done" /\ Len(foldChunks) = 3 /\ Len(chatLog) = 3
  /\ foldResult.value # globalSummary
  /\ PromptOf(chatLog[3]).embedded # PromptOf(chatLog[2]).embedded

WalkedWithoutFailure ==
  /\ wpc = "done"
  /\ \A k \in 1..Len(gitDiffLog) : ~gitDiffLog[k].threw

\* the newest point of the history: the last commit of the list in commit
\* mode, the ref HEAD in tag mode
Newest == IF walkMode = "commit" THEN At(commitList, Len(commitList) - 1) ELSE HEAD

\* C27: for a history with at least one commit and no failing diff, the
\* comparisons of the walker (commit mode for any group size, tag mode
\* without a starting tag) form one contiguous chain: the first from side is
\* the empty tree, each later from side equals the previous to side, and the
\* last to side is HEAD, the newest commit.
C27_ComparisonsFormOneChain ==
  (/\ WalkedWithoutFailure
   /\ \/ walkMode = "commit" /\ Len(commitList) >= 1
      \/ walkMode = "tag" /\ fromTag = NULL) =>
    /\ gitDiffLog # <<>>
    /\ gitDiffLog[1].from = EMPTY_TREE_HASH
    /\ \A k \in 2..Len(gitDiffLog) : gitDiffLog[k].from = gitDiffLog[k - 1].to
    /\ gitDiffLog[Len(gitDiffLog)].to = Newest

\* a grouped walk whose last whole group ends before the newest commit, so
\* that the chain is closed by the trailing comparison
C27_Witness ==
  /\ WalkedWithoutFailure /\ walkMode = "commit"
  /\ groupSize = 2 /\ Len(commitList) = 6
  /\ Len(gitDiffLog) = 3
  /\ gitDiffLog[3].from = At(commitList, 4)

(***************************************************************************)
(* C26: one gateway request at a time                                      *)
(***************************************************************************)
\* the queries and the chats that were issued and have not settled
InFlightQueries == Len(queryLog) - Len(replyLog)
InFlightChats ==
  Len(chatLog)
    - (fi + IF fpc = "failed" /\ foldResult.value = "chat failed" THEN 1 ELSE 0)

\* nothing that a command awaits is pending
Quiet ==
  /\ InFlightQueries = 0 /\ InFlightChats = 0
  /\ wpc \notin {"start", "failed"}
  /\ apc \notin {"start", "query"}
  /\ fpc \notin {"start", "reading", "chat", "writing"}

OneRequestInFlight ==
  /\ InFlightQueries + InFlightChats \in {0, 1}
  /\ InFlightQueries = 1 => spc = "processing" /\ apc = "query"
  /\ InFlightChats = 1 => spc = "documenting" /\ fpc = "chat"
  /\ spc \in {"prompt", "dispatch"} => Quiet

StemsFromHeldList ==
  /\ foldKind # "none"
  /\ foldChunks = chunksOf(validFeatures(allFeatures, analyzerVariant))

\* C30: after any sequence of /repo, /commit, /tag, /doc and /export
\* commands, whenever the session holds a non-empty consolidated text, that
\* text was produced by folding the per-diff feature list the session
\* currently holds; /export never writes a consolidated section that stems
\* from another run than its individual-summaries section.
C30_ConsolidatedStemsFromHeldList ==
  (spc \in {"prompt", "exporting"} /\ features # <<>>) => StemsFromHeldList

(***************************************************************************)
(* C28: the returned text does not depend on the read chunks               *)
(***************************************************************************)
\* the text the client returns when the whole body arrives in one chunk
OneChunkText ==
  LET st == IF stream = <<>> THEN [buffer |-> <<>>, fullText |-> <<>>]
            ELSE IF client = "current" THEN drainLines(stream, isChat, <<>>)
            ELSE IF client = "earlier" THEN drainLinesClearing(stream, <<>>)
            ELSE unbufferedLines(stream, <<>>)
  IN IF trim(st.buffer) # <<>> THEN parseInto(st.buffer, isChat, st.fullText)
     ELSE st.fullText

\* C28: the text returned by the stream processor depends only on the bytes
\* of the response stream, not on how the transport splits them into read
\* chunks: every partition of the same stream gives the same text.
C28_TextIndependentOfChunks ==
  tpc = "returned" => fullText = OneChunkText

\* the same for the client of part_003 alone
C28_CurrentClientIndependentOfChunks ==
  (tpc = "returned" /\ client = "current") => fullText = OneChunkText

\* the same for the earlier client on bodies without an overlong line
C28_EarlierClientShortLines ==
  (tpc = "returned" /\ client = "earlier" /\ textLength(stream) <= BUFFER_LIMIT) =>
    fullText = OneChunkText

====
